---- MODULE Spec2Model ----
(***************************************************************************)
(* A state-machine model of the annotation canvas                          *)
(* (src/components/AnnotationCanvas.tsx): the scene, the undo/redo         *)
(* history, the clipboard, the view transform and the pointer/keyboard     *)
(* handlers of the interaction state machine.                              *)
(*                                                                         *)
(* Modelling conventions                                                   *)
(*  - Every React handler is one atomic action: it reads the state of the  *)
(*    last render (its closure) and its setState calls take effect         *)
(*    together before the next event is handled.                           *)
(*  - World coordinates are integers.  `scale` is kept in tenths           *)
(*    (ScaleUnit = 10 means scale 1.0); a pointer event is enabled only    *)
(*    at client points whose world coordinates are integers.               *)
(*  - Array identity (the code compares `elements !== history[i]`) is      *)
(*    modelled by a reference number per array: elementsRef, historyRef.   *)
(*  - Date.now() identifiers are modelled as fresh identifiers (numbers    *)
(*    that nothing refers to); the random suffix of pasted identifiers     *)
(*    is modelled as distinct for every pasted item.                       *)
(*  - Of the style fields of an element only strokeColor is kept; width    *)
(*    and height are always numbers (undefined is read as 0 by the code).  *)
(*  - The pointer has one button: a press on the canvas is followed by a   *)
(*    release on the canvas or by the pointer leaving it, and the toolbar  *)
(*    buttons are clicked with the pointer off the canvas.                 *)
(*  - gest, hops and lastOp are observation variables: they record what    *)
(*    the handlers did and are never read by a handler.                    *)
(***************************************************************************)
EXTENDS Integers, Sequences, FiniteSets, TLC

VARIABLES
    tool,                \* useState<Tool>('selection')
    lockTool,            \* useState(false)
    elements,            \* useState<DrawingElement[]>([])
    elementsRef,         \* identity of the array held by `elements`
    currentElement,      \* useState<DrawingElement | null>(null)
    clipboard,           \* useState<DrawingElement[]>([])
    history,             \* useState<DrawingElement[][]>([[]])
    historyRef,          \* identity of each array held by `history`
    historyIndex,        \* useState(0), 0-based as in the code
    strokeColor,         \* useState('#000000')
    eraserSize,          \* useState(30)
    panOffset,           \* useState({x: 0, y: 0})
    scale,               \* useState(1), in tenths
    isSpacePressed,      \* useState(false)
    selectedElementIds,  \* useState<string[]>([])
    selectionBox,        \* useState<{start, current} | null>(null)
    interactionState,    \* useState<InteractionState>({mode: 'none', ...})
    laserPoints,         \* laserPointsRef.current, each point with its age
    frames,              \* requestAnimationFrame(renderCanvas) calls pending
    pointer,             \* environment: "outside", "over" or "pressed"
    imageImport,         \* closures of the paste/drop listeners and of the
                         \* image imports that have not completed
    limits,              \* the bounds this specification explores
    gest,                \* observation: the pointer gesture in progress
    hops,                \* observation: the last history operations
    lastOp               \* observation: the last handler that ran

progVars == <<tool, lockTool, elements, elementsRef, currentElement, clipboard,
              history, historyRef, historyIndex, strokeColor, eraserSize,
              panOffset, scale, isSpacePressed, selectedElementIds,
              selectionBox, interactionState, laserPoints>>

vars == <<progVars, pointer, frames, imageImport, limits, gest, hops, lastOp>>

----------------------------------------------------------------------------
(* Bounds of the model *)

MaxElements == 2
MaxHistory == 3
MaxLaser == 2
MaxFrames == 2
MaxPoints == 3
MaxPasteElements == 4
MaxPasteHistory == 4
MaxZoomOut == 2
MaxBoxHistory == 5
MaxEraserHistory == 5

(* Program constants *)

ScaleUnit == 10
HANDLE_SIZE == 8
HitBuffer == 10
PasteOffset == 20
DefaultEraserSize == 30
PositionSize == 100
MinScale == 1
MaxScale == 50
LaserLifetime == 1000

----------------------------------------------------------------------------
(* Values *)

Tool == {"hand", "selection", "rectangle", "diamond", "ellipse", "arrow",
         "line", "pencil", "text", "image", "eraser", "long_position",
         "short_position", "path", "laser"}

BoxKinds == {"rectangle", "diamond", "ellipse", "image", "long_position",
             "short_position"}

DragKinds == {"rectangle", "diamond", "ellipse", "arrow", "line", "image",
              "long_position", "short_position"}

Point(px, py) == [x |-> px, y |-> py]

Null == [type |-> "null"]

Min(a, b) == IF a <= b THEN a ELSE b
Max(a, b) == IF a >= b THEN a ELSE b
Abs(a) == IF a < 0 THEN -a ELSE a

RECURSIVE SetMin(_)
SetMin(S) == LET a == CHOOSE v \in S : TRUE
             IN IF S = {a} THEN a ELSE Min(a, SetMin(S \ {a}))

RECURSIVE SetMax(_)
SetMax(S) == LET a == CHOOSE v \in S : TRUE
             IN IF S = {a} THEN a ELSE Max(a, SetMax(S \ {a}))

Range(s) == {s[i] : i \in 1..Len(s)}

\* Array.prototype.filter is SelectSeq
\* Array.prototype.map
Map(s, F(_)) == [i \in 1..Len(s) |-> F(s[i])]

Ids(s) == Map(s, LAMBDA e : e.id)

\* entryRatio values: a number n/d, NaN, null (after a JSON round trip) or
\* undefined (absent)
Ratio(n, d) == [k |-> "num", n |-> n, d |-> d]
RatioNaN == [k |-> "nan", n |-> 0, d |-> 0]
RatioNull == [k |-> "null", n |-> 0, d |-> 0]
RatioUndefined == [k |-> "undefined", n |-> 0, d |-> 0]

\* customData: undefined, or an object whose entryRatio may be absent
CustomDataUndefined == [defined |-> FALSE, entryRatio |-> RatioUndefined]
CustomData(r) == [defined |-> TRUE, entryRatio |-> r]

Element(id, type, ex, ey, w, h, pts, cd, color) ==
    [id |-> id, type |-> type, x |-> ex, y |-> ey, width |-> w, height |-> h,
     points |-> pts, customData |-> cd, strokeColor |-> color]

----------------------------------------------------------------------------
(* Geometry helpers *)

getElementBounds_EmptyAtZero(element) ==
    IF element.type \in {"path", "pencil"}
    THEN IF element.points = <<>>
         THEN [minX |-> 0, maxX |-> 0, minY |-> 0, maxY |-> 0]
         ELSE LET xs == {p.x : p \in Range(element.points)}
                  ys == {p.y : p \in Range(element.points)}
              IN [minX |-> SetMin(xs), maxX |-> SetMax(xs),
                  minY |-> SetMin(ys), maxY |-> SetMax(ys)]
    ELSE [minX |-> Min(element.x, element.x + element.width),
          maxX |-> Max(element.x, element.x + element.width),
          minY |-> Min(element.y, element.y + element.height),
          maxY |-> Max(element.y, element.y + element.height)]

getElementBounds(element) ==
    IF element.type \in {"path", "pencil"}
    THEN IF element.points = <<>>
         THEN [minX |-> element.x, maxX |-> element.x,
               minY |-> element.y, maxY |-> element.y]
         ELSE LET xs == {p.x : p \in Range(element.points)}
                  ys == {p.y : p \in Range(element.points)}
              IN [minX |-> SetMin(xs), maxX |-> SetMax(xs),
                  minY |-> SetMin(ys), maxY |-> SetMax(ys)]
    ELSE [minX |-> Min(element.x, element.x + element.width),
          maxX |-> Max(element.x, element.x + element.width),
          minY |-> Min(element.y, element.y + element.height),
          maxY |-> Max(element.y, element.y + element.height)]

normalizeElement_KeepOrigin(element) ==
    IF element.type \in BoxKinds /\ (element.width < 0 \/ element.height < 0)
    THEN [element EXCEPT !.width = Abs(element.width),
                         !.height = Abs(element.height)]
    ELSE element

normalizeElement(element) ==
    IF element.type \in BoxKinds /\ (element.width < 0 \/ element.height < 0)
    THEN [element EXCEPT
            !.x = IF element.width < 0 THEN element.x + element.width
                  ELSE element.x,
            !.y = IF element.height < 0 THEN element.y + element.height
                  ELSE element.y,
            !.width = Abs(element.width),
            !.height = Abs(element.height)]
    ELSE element

\* x >= minX - 10/scale etc., multiplied through by scale
isPointInElement(px, py, element) ==
    LET b == getElementBounds(element)
    IN /\ (px - b.minX) * scale >= -(HitBuffer * ScaleUnit)
       /\ (px - b.maxX) * scale <= HitBuffer * ScaleUnit
       /\ (py - b.minY) * scale >= -(HitBuffer * ScaleUnit)
       /\ (py - b.maxY) * scale <= HitBuffer * ScaleUnit

NearHandle_Inclusive(a, b) == 2 * Abs(a - b) * scale <= HANDLE_SIZE * ScaleUnit

\* Math.abs(a - b) < (HANDLE_SIZE / 2) / scale, multiplied through by 2 * scale
NearHandle(a, b) == 2 * Abs(a - b) * scale < HANDLE_SIZE * ScaleUnit

\* Math.abs(y - (y1 + |h| * entryRatio)) < handleRadius, for entryRatio = n/d
NearEntry(py, y1, h, r) ==
    /\ r.k = "num"
    /\ 2 * Abs((py - y1) * r.d - Abs(h) * r.n) * scale
         < HANDLE_SIZE * ScaleUnit * r.d

\* customData?.entryRatio ?? 0.5
EntryRatioOrDefault(element) ==
    IF element.customData.entryRatio.k \in {"undefined", "null"}
    THEN Ratio(1, 2)
    ELSE element.customData.entryRatio

getResizeHandleAtPosition(px, py, element) ==
    IF element.type \notin BoxKinds THEN "null"
    ELSE LET x1 == Min(element.x, element.x + element.width)
             x2 == Max(element.x, element.x + element.width)
             y1 == Min(element.y, element.y + element.height)
             y2 == Max(element.y, element.y + element.height)
             twiceMidX == x1 + x2
             nearMidX == Abs(2 * px - twiceMidX) * scale
                            < HANDLE_SIZE * ScaleUnit
         IN IF NearHandle(px, x1) /\ NearHandle(py, y1) THEN "tl"
            ELSE IF NearHandle(px, x2) /\ NearHandle(py, y1) THEN "tr"
            ELSE IF NearHandle(px, x1) /\ NearHandle(py, y2) THEN "bl"
            ELSE IF NearHandle(px, x2) /\ NearHandle(py, y2) THEN "br"
            ELSE IF element.type \in {"long_position", "short_position"}
                 THEN IF nearMidX /\ NearHandle(py, y1) THEN "n"
                      ELSE IF nearMidX /\ NearHandle(py, y2) THEN "s"
                      ELSE IF /\ NearHandle(px, x2)
                              /\ NearEntry(py, y1, element.height,
                                           EntryRatioOrDefault(element))
                           THEN "entry"
                      ELSE "null"
                 ELSE "null"

----------------------------------------------------------------------------
(* Identity of arrays, fresh identifiers *)

\* A reference that no array of `history` has: the identity of a new array
FreshRef == SetMin((0..Len(historyRef)) \ Range(historyRef))

SnapshotElements ==
    Range(interactionState.startElementSnapshots)
        \cup (IF interactionState.startElementSnapshot = Null THEN {}
              ELSE {interactionState.startElementSnapshot})

IdsInUse ==
    {e.id : e \in Range(elements) \cup Range(clipboard) \cup SnapshotElements}
        \cup UNION {{e.id : e \in Range(history[i])} : i \in 1..Len(history)}
        \cup Range(selectedElementIds)
        \cup (IF currentElement = Null THEN {} ELSE {currentElement.id})

\* The identifiers are compared for equality only, so a new identifier is
\* modelled by the first number that nothing refers to any more.
RECURSIVE NthFreeId(_)
NthFreeId(i) ==
    LET low == IF i = 1 THEN 0 ELSE NthFreeId(i - 1)
    IN SetMin(((low + 1)..(low + 1 + Cardinality(IdsInUse))) \ IdsInUse)

\* Date.now().toString(): an identifier no element in use has
DateNowId == NthFreeId(1)

----------------------------------------------------------------------------
(* The state a handler reads (its closure) and the state it leaves *)

NoInteraction ==
    [mode |-> "none", resizeHandle |-> "null", startMousePos |-> Point(0, 0),
     startElementSnapshot |-> Null, startElementSnapshots |-> <<>>]

Interaction(mode, pos) == [NoInteraction EXCEPT !.mode = mode, !.startMousePos = pos]

Cur ==
    [tool |-> tool, lockTool |-> lockTool, elements |-> elements,
     elementsRef |-> elementsRef, currentElement |-> currentElement,
     clipboard |-> clipboard, history |-> history, historyRef |-> historyRef,
     historyIndex |-> historyIndex, strokeColor |-> strokeColor,
     eraserSize |-> eraserSize, panOffset |-> panOffset, scale |-> scale,
     isSpacePressed |-> isSpacePressed,
     selectedElementIds |-> selectedElementIds, selectionBox |-> selectionBox,
     interactionState |-> interactionState, laserPoints |-> laserPoints,
     frames |-> frames, pushed |-> FALSE]

\* setElements(s) with a new array s
SetElements(n, s) == [n EXCEPT !.elements = s, !.elementsRef = FreshRef]

pushToHistory_NoTruncate(h, i, newElements) ==
    [history |-> Append(h, newElements), historyIndex |-> Len(h)]

pushToHistory_KeepIndex(h, i, newElements) ==
    [history |-> Append(SubSeq(h, 1, i + 1), newElements), historyIndex |-> i]

\* const newHistory = history.slice(0, historyIndex + 1);
\* newHistory.push(newElements); setHistory(newHistory);
\* setHistoryIndex(newHistory.length - 1)
pushToHistory(h, i, newElements) ==
    LET newHistory == Append(SubSeq(h, 1, i + 1), newElements)
    IN [history |-> newHistory, historyIndex |-> Len(newHistory) - 1]

\* pushToHistory(n.elements) called from a handler whose closure holds
\* `history` and `historyIndex`
Push(n) ==
    [n EXCEPT
       !.history = pushToHistory(history, historyIndex, n.elements).history,
       !.historyRef =
           pushToHistory(historyRef, historyIndex, n.elementsRef).history,
       !.historyIndex =
           pushToHistory(history, historyIndex, n.elements).historyIndex,
       !.pushed = TRUE]

\* Room for one more history entry and for k more elements
HistoryRoom == historyIndex + 2 <= limits.history
ElementRoom(k) == Len(elements) + k <= limits.elements

----------------------------------------------------------------------------
(* Observation of gestures and of history operations *)

Pre == [elements |-> elements, history |-> history,
        historyIndex |-> historyIndex,
        selectedElementIds |-> selectedElementIds]

PreNone == [elements |-> <<>>, history |-> <<>>, historyIndex |-> 0,
            selectedElementIds |-> <<>>]

\* gest follows one pointer gesture: the press ("down"), the moves, the
\* release ("up") and an undo right after it ("undone"); any other handler
\* in between ends the observation
GestNone == [on |-> TRUE, stage |-> "none", mode |-> "none", tool |-> "none",
             handle |-> "null", p0 |-> Point(0, 0), p1 |-> Point(0, 0),
             shiftDown |-> FALSE, shiftUp |-> FALSE, detail |-> 1,
             pre |-> PreNone]

GestOff == [GestNone EXCEPT !.on = FALSE]

\* the program state changed
Changed(n) == [n EXCEPT !.pushed = FALSE] # Cur

\* hops follows the history operations commit, commit, undo and then redo
\* ("ccur") or undo ("ccuu") and undo again ("ccuuu"), starting at any
\* commit: base is the history entry current before the first commit, s2 the
\* scene of the second commit, fresh says that the last handler was the one
\* that led to this stage, changed whether that handler changed the state
HopsOn == [on |-> TRUE, stage |-> "", base |-> <<>>, baseIndex |-> 0,
           s2 |-> <<>>, fresh |-> FALSE, changed |-> FALSE]

HopsOff == [HopsOn EXCEPT !.on = FALSE]

HopsStep(stage, n) ==
    [hops EXCEPT !.stage = stage, !.fresh = TRUE, !.changed = Changed(n)]

HopsNext(op, n) ==
    IF ~hops.on THEN {hops}
    ELSE IF n.pushed
    THEN {[HopsOn EXCEPT !.stage = "c", !.base = history[historyIndex + 1],
                         !.baseIndex = historyIndex, !.fresh = TRUE]}
           \cup (IF hops.stage = "c"
                 THEN {[HopsStep("cc", n) EXCEPT !.s2 = n.elements]}
                 ELSE {})
    ELSE IF op = "undo" /\ hops.stage \in {"cc", "ccu", "ccuu"}
    THEN {HopsStep(hops.stage \o "u", n)}
    ELSE IF op = "redo" /\ hops.stage = "ccu"
    THEN {HopsStep("ccur", n)}
    ELSE IF op \in {"undo", "redo"} \/ hops.stage \in {"ccur", "ccuuu"}
    THEN {HopsOn}
    ELSE {[hops EXCEPT !.fresh = FALSE]}

LastOpOn == [on |-> TRUE, name |-> "init", pushed |-> FALSE, changed |-> FALSE]
LastOpOff == [LastOpOn EXCEPT !.on = FALSE]

Observe(op, n, g) ==
    /\ lastOp' = IF lastOp.on
                 THEN [on |-> TRUE, name |-> op, pushed |-> n.pushed,
                       changed |-> Changed(n)]
                 ELSE lastOp
    /\ gest' = IF gest.on THEN g ELSE gest
    /\ hops' \in HopsNext(op, n)

\* What processImageFile reads from the render that created it
Closure(n) ==
    [history |-> n.history, historyRef |-> n.historyRef,
     historyIndex |-> n.historyIndex, panOffset |-> n.panOffset,
     scale |-> n.scale]

\* imageImport.on says whether the specification follows the closures
ImportOff == [on |-> FALSE, listener |-> Null, loading |-> <<>>]

\* useEffect(() => { window.addEventListener('paste', ...) ... },
\*           [panOffset, scale]): the listeners are replaced, with the
\* processImageFile of the new render, when scale has a new value or
\* panOffset holds a new object
EffectAfter(op, n) ==
    IF /\ imageImport.on
       /\ \/ n.panOffset # panOffset
          \/ n.scale # scale
          \/ op = "resetZoom"
          \/ op = "wheel"
          \/ op = "mouseMove" /\ interactionState.mode = "panning"
    THEN [imageImport EXCEPT !.listener = Closure(n)]
    ELSE imageImport

\* the state setters of a handler take effect together
SetState(n) ==
    /\ tool' = n.tool
    /\ lockTool' = n.lockTool
    /\ elements' = n.elements
    /\ elementsRef' = n.elementsRef
    /\ currentElement' = n.currentElement
    /\ clipboard' = n.clipboard
    /\ history' = n.history
    /\ historyRef' = n.historyRef
    /\ historyIndex' = n.historyIndex
    /\ strokeColor' = n.strokeColor
    /\ eraserSize' = n.eraserSize
    /\ panOffset' = n.panOffset
    /\ scale' = n.scale
    /\ isSpacePressed' = n.isSpacePressed
    /\ selectedElementIds' = n.selectedElementIds
    /\ selectionBox' = n.selectionBox
    /\ interactionState' = n.interactionState
    /\ laserPoints' = n.laserPoints
    /\ frames' = n.frames

Apply(op, n, g) ==
    /\ SetState(n)
    /\ imageImport' = EffectAfter(op, n)
    /\ Observe(op, n, g)

----------------------------------------------------------------------------
(* History: undo and redo *)

undo_KeepsSelection ==
    IF historyIndex > 0
    THEN [Cur EXCEPT !.historyIndex = historyIndex - 1,
                     !.elements = history[historyIndex],
                     !.elementsRef = historyRef[historyIndex]]
    ELSE Cur

\* if (historyIndex > 0) { setHistoryIndex(historyIndex - 1);
\*   setElements(history[historyIndex - 1]); setSelectedElementIds([]) }
undo_Result ==
    IF historyIndex > 0
    THEN [Cur EXCEPT !.historyIndex = historyIndex - 1,
                     !.elements = history[historyIndex],
                     !.elementsRef = historyRef[historyIndex],
                     !.selectedElementIds = <<>>]
    ELSE Cur

undo ==
    /\ Apply("undo", undo_Result,
             IF gest.stage = "up" THEN [gest EXCEPT !.stage = "undone"]
             ELSE GestNone)
    /\ UNCHANGED <<pointer, limits>>

redo_ClearsSelection ==
    IF historyIndex < Len(history) - 1
    THEN [Cur EXCEPT !.historyIndex = historyIndex + 1,
                     !.elements = history[historyIndex + 2],
                     !.elementsRef = historyRef[historyIndex + 2],
                     !.selectedElementIds = <<>>]
    ELSE [Cur EXCEPT !.selectedElementIds = <<>>]

\* if (historyIndex < history.length - 1) { setHistoryIndex(historyIndex + 1);
\*   setElements(history[historyIndex + 1]); setSelectedElementIds([]) }
redo_Result ==
    IF historyIndex < Len(history) - 1
    THEN [Cur EXCEPT !.historyIndex = historyIndex + 1,
                     !.elements = history[historyIndex + 2],
                     !.elementsRef = historyRef[historyIndex + 2],
                     !.selectedElementIds = <<>>]
    ELSE Cur

redo ==
    /\ Apply("redo", redo_Result, GestNone)
    /\ UNCHANGED <<pointer, limits>>

----------------------------------------------------------------------------
(* Copy, paste, delete *)

\* JSON.parse(JSON.stringify(e)): NaN becomes null, the rest is kept
JsonClone(e) ==
    IF e.customData.entryRatio.k = "nan"
    THEN [e EXCEPT !.customData.entryRatio = RatioNull]
    ELSE e

handleCopy_Result ==
    LET els == SelectSeq(elements,
                         LAMBDA e : e.id \in Range(selectedElementIds))
    IN IF selectedElementIds # <<>> /\ els # <<>>
       THEN [Cur EXCEPT !.clipboard = Map(els, JsonClone)]
       ELSE Cur

handleCopy ==
    /\ Apply("copy", handleCopy_Result, GestNone)
    /\ UNCHANGED <<pointer, limits>>

\* 20 / scale
PasteDelta == (PasteOffset * ScaleUnit) \div scale

PasteExact == (PasteOffset * ScaleUnit) % scale = 0

\* the i-th pasted identifier: Date.now() followed by a random suffix
PastedId(i) == NthFreeId(i)

PastedElement_OriginOnly(item, i) ==
    LET offset == PasteDelta
    IN [item EXCEPT !.id = PastedId(i),
                    !.x = item.x + offset,
                    !.y = item.y + offset]

PastedElement(item, i) ==
    LET offset == PasteDelta
    IN [item EXCEPT
          !.id = PastedId(i),
          !.x = item.x + offset,
          !.y = item.y + offset,
          !.points = IF item.type \in {"path", "pencil"}
                     THEN Map(item.points,
                              LAMBDA p : Point(p.x + offset, p.y + offset))
                     ELSE item.points]

handlePaste_Result ==
    IF clipboard # <<>>
    THEN LET pastedElements ==
                 [i \in 1..Len(clipboard) |-> PastedElement(clipboard[i], i)]
             newElements == elements \o pastedElements
         IN [Push(SetElements(Cur, newElements))
               EXCEPT !.selectedElementIds = Ids(pastedElements)]
    ELSE Cur

handlePaste ==
    /\ PasteExact
    /\ clipboard # <<>> => HistoryRoom /\ ElementRoom(Len(clipboard))
    /\ Apply("paste", handlePaste_Result, GestNone)
    /\ UNCHANGED <<pointer, limits>>

\* window.confirm("Clear entire board?") is reached
ConfirmAsked == selectedElementIds = <<>> /\ elements # <<>>

handleDelete_IgnoresAnswer(confirm) ==
    IF selectedElementIds # <<>>
    THEN LET newElements ==
                 SelectSeq(elements,
                           LAMBDA el : el.id \notin Range(selectedElementIds))
         IN [Push(SetElements(Cur, newElements))
               EXCEPT !.selectedElementIds = <<>>]
    ELSE IF elements # <<>>
         THEN Push(SetElements(Cur, <<>>))
         ELSE Cur

handleDelete_FirstSelected(confirm) ==
    IF selectedElementIds # <<>>
    THEN LET newElements ==
                 SelectSeq(elements,
                           LAMBDA el : el.id # selectedElementIds[1])
         IN [Push(SetElements(Cur, newElements))
               EXCEPT !.selectedElementIds = <<>>]
    ELSE IF elements # <<>> /\ confirm
         THEN Push(SetElements(Cur, <<>>))
         ELSE Cur

\* confirm is the answer of window.confirm
handleDelete_Result(confirm) ==
    IF selectedElementIds # <<>>
    THEN LET newElements ==
                 SelectSeq(elements,
                           LAMBDA el : el.id \notin Range(selectedElementIds))
         IN [Push(SetElements(Cur, newElements))
               EXCEPT !.selectedElementIds = <<>>]
    ELSE IF elements # <<>> /\ confirm
         THEN Push(SetElements(Cur, <<>>))
         ELSE Cur

\* the Delete and Backspace keys and the delete button; there is an answer
\* only when the dialog is shown
handleDelete(confirm) ==
    /\ ~ConfirmAsked => ~confirm
    /\ handleDelete_Result(confirm).pushed => HistoryRoom
    /\ LET n == handleDelete_Result(confirm)
       IN /\ SetState(n)
          /\ imageImport' = EffectAfter("delete", n)
          /\ gest' = IF gest.on THEN GestNone ELSE gest
          /\ hops' \in HopsNext("delete", n)
          /\ lastOp' = IF lastOp.on
                       THEN [on |-> TRUE, name |-> "delete",
                             pushed |-> n.pushed, changed |-> Changed(n),
                             asked |-> ConfirmAsked, confirm |-> confirm]
                       ELSE lastOp
    /\ UNCHANGED <<pointer, limits>>

----------------------------------------------------------------------------
(* Space bar, tool buttons *)

effectiveTool == IF isSpacePressed THEN "hand" ELSE tool

\* keydown of the space bar
SpaceDown ==
    /\ Apply("spaceDown",
             IF ~isSpacePressed THEN [Cur EXCEPT !.isSpacePressed = TRUE]
             ELSE Cur,
             GestNone)
    /\ UNCHANGED <<pointer, limits>>

\* keyup of the space bar
SpaceUp ==
    /\ Apply("spaceUp", [Cur EXCEPT !.isSpacePressed = FALSE], GestNone)
    /\ UNCHANGED <<pointer, limits>>

\* ToolButton.handleClick for a tool other than image; the toolbar lies
\* over the canvas, so the pointer has left the canvas
ToolClick(t) ==
    /\ pointer = "outside"
    /\ Apply("tool",
             [Cur EXCEPT !.tool = t, !.selectedElementIds = <<>>,
                         !.currentElement = Null],
             GestNone)
    /\ UNCHANGED <<pointer, limits>>

\* ToolButton.handleDoubleClick for a tool other than image
ToolDoubleClick(t) ==
    /\ pointer = "outside"
    /\ Apply("toolLock", [Cur EXCEPT !.tool = t, !.lockTool = TRUE], GestNone)
    /\ UNCHANGED <<pointer, limits>>

\* the lock button
ToggleLock ==
    /\ pointer = "outside"
    /\ Apply("lock", [Cur EXCEPT !.lockTool = ~lockTool], GestNone)
    /\ UNCHANGED <<pointer, limits>>

updateZoom_NoUpperClamp(delta) ==
    [Cur EXCEPT !.scale = Max(MinScale, scale + delta)]

\* the zoom buttons: updateZoom(-0.1) and updateZoom(0.1),
\* setScale(prev => Math.min(Math.max(0.1, prev + delta), 5))
updateZoom_Result(delta) ==
    [Cur EXCEPT !.scale = Min(Max(MinScale, scale + delta), MaxScale)]

updateZoom(delta) ==
    /\ pointer = "outside"
    /\ scale + delta >= ScaleUnit - limits.zoomOut
    /\ scale + delta <= ScaleUnit + limits.zoomIn
    /\ Apply("zoom", updateZoom_Result(delta), GestNone)
    /\ UNCHANGED <<pointer, limits>>

----------------------------------------------------------------------------
(* Pointer handlers *)

\* (clientX - rect.left - panOffset.x) / scale, the canvas filling the window
getMousePos(c) ==
    Point(((c.x - panOffset.x) * ScaleUnit) \div scale,
          ((c.y - panOffset.y) * ScaleUnit) \div scale)

\* the division of getMousePos is exact at this client point
OnWorldGrid(c) ==
    /\ ((c.x - panOffset.x) * ScaleUnit) % scale = 0
    /\ ((c.y - panOffset.y) * ScaleUnit) % scale = 0

\* elements.find(el => el.id === id)
Find(s, id) ==
    IF \E i \in 1..Len(s) : s[i].id = id
    THEN s[SetMin({i \in 1..Len(s) : s[i].id = id})]
    ELSE Null

ClickedId_Bottommost(px, py) ==
    LET hits == {i \in 1..Len(elements) : isPointInElement(px, py, elements[i])}
    IN IF hits = {} THEN 0 ELSE elements[SetMin(hits)].id

\* the loop from the last element down to the first: the topmost hit
ClickedId(px, py) ==
    LET hits == {i \in 1..Len(elements) : isPointInElement(px, py, elements[i])}
    IN IF hits = {} THEN 0 ELSE elements[SetMax(hits)].id

HasPoints(e) == e.type \in {"pencil", "path"}

\* x, y, width and height recomputed from the points of a pencil or path
WithPointBounds(e) ==
    LET xs == {q.x : q \in Range(e.points)}
        ys == {q.y : q \in Range(e.points)}
    IN [e EXCEPT !.x = SetMin(xs), !.y = SetMin(ys),
                 !.width = SetMax(xs) - SetMin(xs),
                 !.height = SetMax(ys) - SetMin(ys)]

DownSelection_AnySelection(p, shift) ==
    LET selectedEl == IF Len(selectedElementIds) >= 1
                      THEN Find(elements, selectedElementIds[1])
                      ELSE Null
        handle == IF selectedEl # Null
                  THEN getResizeHandleAtPosition(p.x, p.y, selectedEl)
                  ELSE "null"
        clickedId == ClickedId(p.x, p.y)
        isAlreadySelected == clickedId \in Range(selectedElementIds)
        newSelection ==
            IF shift
            THEN IF isAlreadySelected
                 THEN SelectSeq(selectedElementIds, LAMBDA id : id # clickedId)
                 ELSE Append(selectedElementIds, clickedId)
            ELSE IF ~isAlreadySelected THEN <<clickedId>>
                 ELSE selectedElementIds
        snapshots == SelectSeq(elements,
                               LAMBDA el : el.id \in Range(newSelection))
    IN IF handle # "null"
       THEN [Cur EXCEPT !.interactionState =
                [mode |-> "resizing", resizeHandle |-> handle,
                 startMousePos |-> p, startElementSnapshot |-> selectedEl,
                 startElementSnapshots |-> <<>>]]
       ELSE IF clickedId # 0
       THEN IF shift /\ isAlreadySelected
            THEN [Cur EXCEPT !.selectedElementIds = newSelection]
            ELSE [Cur EXCEPT
                    !.selectedElementIds = newSelection,
                    !.interactionState =
                        [mode |-> "moving", resizeHandle |-> "null",
                         startMousePos |-> p, startElementSnapshot |-> Null,
                         startElementSnapshots |-> snapshots]]
       ELSE [Cur EXCEPT
               !.selectedElementIds = IF shift THEN selectedElementIds
                                      ELSE <<>>,
               !.selectionBox = [start |-> p, current |-> p],
               !.interactionState = Interaction("selection_box", p)]

DownSelection_ToggleDrags(p, shift) ==
    LET selectedEl == IF Len(selectedElementIds) = 1
                      THEN Find(elements, selectedElementIds[1])
                      ELSE Null
        handle == IF selectedEl # Null
                  THEN getResizeHandleAtPosition(p.x, p.y, selectedEl)
                  ELSE "null"
        clickedId == ClickedId(p.x, p.y)
        isAlreadySelected == clickedId \in Range(selectedElementIds)
        newSelection ==
            IF shift
            THEN IF isAlreadySelected
                 THEN SelectSeq(selectedElementIds, LAMBDA id : id # clickedId)
                 ELSE Append(selectedElementIds, clickedId)
            ELSE IF ~isAlreadySelected THEN <<clickedId>>
                 ELSE selectedElementIds
        snapshots == SelectSeq(elements,
                               LAMBDA el : el.id \in Range(newSelection))
    IN IF handle # "null"
       THEN [Cur EXCEPT !.interactionState =
                [mode |-> "resizing", resizeHandle |-> handle,
                 startMousePos |-> p, startElementSnapshot |-> selectedEl,
                 startElementSnapshots |-> <<>>]]
       ELSE IF clickedId # 0
       THEN IF FALSE
            THEN [Cur EXCEPT !.selectedElementIds = newSelection]
            ELSE [Cur EXCEPT
                    !.selectedElementIds = newSelection,
                    !.interactionState =
                        [mode |-> "moving", resizeHandle |-> "null",
                         startMousePos |-> p, startElementSnapshot |-> Null,
                         startElementSnapshots |-> snapshots]]
       ELSE [Cur EXCEPT
               !.selectedElementIds = IF shift THEN selectedElementIds
                                      ELSE <<>>,
               !.selectionBox = [start |-> p, current |-> p],
               !.interactionState = Interaction("selection_box", p)]

DownSelection_BoxClears(p, shift) ==
    LET selectedEl == IF Len(selectedElementIds) = 1
                      THEN Find(elements, selectedElementIds[1])
                      ELSE Null
        handle == IF selectedEl # Null
                  THEN getResizeHandleAtPosition(p.x, p.y, selectedEl)
                  ELSE "null"
        clickedId == ClickedId(p.x, p.y)
        isAlreadySelected == clickedId \in Range(selectedElementIds)
        newSelection ==
            IF shift
            THEN IF isAlreadySelected
                 THEN SelectSeq(selectedElementIds, LAMBDA id : id # clickedId)
                 ELSE Append(selectedElementIds, clickedId)
            ELSE IF ~isAlreadySelected THEN <<clickedId>>
                 ELSE selectedElementIds
        snapshots == SelectSeq(elements,
                               LAMBDA el : el.id \in Range(newSelection))
    IN IF handle # "null"
       THEN [Cur EXCEPT !.interactionState =
                [mode |-> "resizing", resizeHandle |-> handle,
                 startMousePos |-> p, startElementSnapshot |-> selectedEl,
                 startElementSnapshots |-> <<>>]]
       ELSE IF clickedId # 0
       THEN IF shift /\ isAlreadySelected
            THEN [Cur EXCEPT !.selectedElementIds = newSelection]
            ELSE [Cur EXCEPT
                    !.selectedElementIds = newSelection,
                    !.interactionState =
                        [mode |-> "moving", resizeHandle |-> "null",
                         startMousePos |-> p, startElementSnapshot |-> Null,
                         startElementSnapshots |-> snapshots]]
       ELSE [Cur EXCEPT
               !.selectedElementIds = <<>>,
               !.selectionBox = [start |-> p, current |-> p],
               !.interactionState = Interaction("selection_box", p)]

DownSelection(p, shift) ==
    LET selectedEl == IF Len(selectedElementIds) = 1
                      THEN Find(elements, selectedElementIds[1])
                      ELSE Null
        handle == IF selectedEl # Null
                  THEN getResizeHandleAtPosition(p.x, p.y, selectedEl)
                  ELSE "null"
        clickedId == ClickedId(p.x, p.y)
        isAlreadySelected == clickedId \in Range(selectedElementIds)
        newSelection ==
            IF shift
            THEN IF isAlreadySelected
                 THEN SelectSeq(selectedElementIds, LAMBDA id : id # clickedId)
                 ELSE Append(selectedElementIds, clickedId)
            ELSE IF ~isAlreadySelected THEN <<clickedId>>
                 ELSE selectedElementIds
        snapshots == SelectSeq(elements,
                               LAMBDA el : el.id \in Range(newSelection))
    IN IF handle # "null"
       THEN [Cur EXCEPT !.interactionState =
                [mode |-> "resizing", resizeHandle |-> handle,
                 startMousePos |-> p, startElementSnapshot |-> selectedEl,
                 startElementSnapshots |-> <<>>]]
       ELSE IF clickedId # 0
       THEN IF shift /\ isAlreadySelected
            THEN [Cur EXCEPT !.selectedElementIds = newSelection]
            ELSE [Cur EXCEPT
                    !.selectedElementIds = newSelection,
                    !.interactionState =
                        [mode |-> "moving", resizeHandle |-> "null",
                         startMousePos |-> p, startElementSnapshot |-> Null,
                         startElementSnapshots |-> snapshots]]
       ELSE [Cur EXCEPT
               !.selectedElementIds = IF shift THEN selectedElementIds
                                      ELSE <<>>,
               !.selectionBox = [start |-> p, current |-> p],
               !.interactionState = Interaction("selection_box", p)]

DownPath_KeepsOrigin(p, detail, id) ==
    IF detail = 2 /\ currentElement # Null /\ currentElement.type = "path"
    THEN LET finalPath == currentElement
             newElements == Append(elements, finalPath)
         IN [Push(SetElements(Cur, newElements)) EXCEPT
               !.currentElement = Null,
               !.selectedElementIds = <<finalPath.id>>,
               !.interactionState = Interaction("none", p),
               !.tool = IF ~lockTool THEN "selection" ELSE tool]
    ELSE IF currentElement = Null
    THEN [Cur EXCEPT
            !.interactionState = Interaction("drawing", p),
            !.currentElement =
                Element(id, "path", p.x, p.y, 0, 0, <<p, p>>,
                        CustomDataUndefined, strokeColor)]
    ELSE IF HasPoints(currentElement)
    THEN [Cur EXCEPT
            !.currentElement.points =
                Append([@ EXCEPT ![Len(@)] = p], p)]
    ELSE Cur

DownPath(p, detail, id) ==
    IF detail = 2 /\ currentElement # Null /\ currentElement.type = "path"
    THEN LET finalPath == WithPointBounds(currentElement)
             newElements == Append(elements, finalPath)
         IN [Push(SetElements(Cur, newElements)) EXCEPT
               !.currentElement = Null,
               !.selectedElementIds = <<finalPath.id>>,
               !.interactionState = Interaction("none", p),
               !.tool = IF ~lockTool THEN "selection" ELSE tool]
    ELSE IF currentElement = Null
    THEN [Cur EXCEPT
            !.interactionState = Interaction("drawing", p),
            !.currentElement =
                Element(id, "path", p.x, p.y, 0, 0, <<p, p>>,
                        CustomDataUndefined, strokeColor)]
    ELSE IF HasPoints(currentElement)
    THEN [Cur EXCEPT
            !.currentElement.points =
                Append([@ EXCEPT ![Len(@)] = p], p)]
    ELSE Cur

DownDraw(p, id) ==
    LET baseElement == Element(id, effectiveTool, p.x, p.y, 0, 0, <<>>,
                               CustomDataUndefined, strokeColor)
    IN [Cur EXCEPT
          !.interactionState = Interaction("drawing", p),
          !.currentElement =
              IF effectiveTool = "pencil"
              THEN [baseElement EXCEPT !.points = <<p>>]
              ELSE IF effectiveTool \in {"long_position", "short_position"}
              THEN [baseElement EXCEPT
                      !.width = PositionSize, !.height = PositionSize,
                      !.customData = CustomData(Ratio(1, 2))]
              ELSE baseElement]

\* {x, y, timestamp: Date.now()}: a laser point, kept with its age
LaserPoint(p) == [x |-> p.x, y |-> p.y, age |-> 0]

\* The laser part of renderCanvas:
\* if (laserPointsRef.current.length > 0) {
\*   laserPointsRef.current = ....filter(p => now - p.timestamp < 1000);
\*   if (laserPointsRef.current.length > 1) {
\*     ...; requestAnimationFrame(renderCanvas) } }
renderLaser(n) ==
    IF n.laserPoints # <<>>
    THEN LET kept == SelectSeq(n.laserPoints,
                               LAMBDA q : q.age < LaserLifetime)
         IN [n EXCEPT !.laserPoints = kept,
                      !.frames = IF Len(kept) > 1 THEN @ + 1 ELSE @]
    ELSE n

handleMouseDown_Result(c, shift, detail) ==
    LET p == getMousePos(c)
        id == DateNowId
    IN IF effectiveTool = "laser"
       THEN renderLaser(
                [Cur EXCEPT !.interactionState = Interaction("drawing", p),
                            !.laserPoints = Append(laserPoints,
                                                   LaserPoint(p))])
       ELSE IF effectiveTool = "hand"
       THEN [Cur EXCEPT !.interactionState = Interaction("panning", c)]
       ELSE IF effectiveTool = "selection" THEN DownSelection(p, shift)
       ELSE IF effectiveTool = "text" THEN Cur
       ELSE IF effectiveTool = "path" THEN DownPath(p, detail, id)
       ELSE DownDraw(p, id)

\* what a handler may not exceed: the bounds of the model
WithinBounds(n) ==
    /\ Len(n.elements) <= limits.elements
    /\ Len(n.history) <= limits.history
    /\ Len(n.laserPoints) <= MaxLaser
    /\ n.frames <= MaxFrames
    /\ n.currentElement # Null =>
          /\ Len(n.currentElement.points) <= MaxPoints
          /\ \/ Len(n.elements) < limits.elements
             \/ n.currentElement.type = "eraser"

handleMouseDown(c, shift, detail) ==
    /\ pointer = "over"
    /\ OnWorldGrid(c)
    /\ WithinBounds(handleMouseDown_Result(c, shift, detail))
    /\ Apply("mouseDown", handleMouseDown_Result(c, shift, detail),
             [GestNone EXCEPT
                !.stage = "down",
                !.mode = handleMouseDown_Result(c, shift, detail)
                            .interactionState.mode,
                !.tool = effectiveTool,
                !.handle = handleMouseDown_Result(c, shift, detail)
                              .interactionState.resizeHandle,
                !.p0 = getMousePos(c), !.p1 = getMousePos(c),
                !.shiftDown = shift, !.detail = detail, !.pre = Pre])
    /\ pointer' = "pressed"
    /\ UNCHANGED limits

RECURSIVE GCD(_, _)
GCD(a, b) == IF b = 0 THEN a ELSE GCD(b, a % b)

\* Math.min(Math.max(relY / Math.abs(nh), 0.05), 0.95)
ClampedRatio_NoUpperClamp(relY, nh) ==
    LET a == Abs(nh)
        g == GCD(Abs(relY), a)
    IN IF a = 0
       THEN IF relY = 0 THEN RatioNaN
            ELSE IF relY > 0 THEN Ratio(19, 20) ELSE Ratio(1, 20)
       ELSE IF 20 * relY < a THEN Ratio(1, 20)
       ELSE Ratio(relY \div g, a \div g)

ClampedRatio(relY, nh) ==
    LET a == Abs(nh)
        g == GCD(Abs(relY), a)
    IN IF a = 0
       THEN IF relY = 0 THEN RatioNaN
            ELSE IF relY > 0 THEN Ratio(19, 20) ELSE Ratio(1, 20)
       ELSE IF 20 * relY < a THEN Ratio(1, 20)
       ELSE IF 20 * relY > 19 * a THEN Ratio(19, 20)
       ELSE Ratio(relY \div g, a \div g)

\* startElementSnapshots.get(id): the entry set last for this identifier
SnapshotOf(id) ==
    LET snaps == interactionState.startElementSnapshots
    IN snaps[SetMax({i \in 1..Len(snaps) : snaps[i].id = id})]

MovedElement_Incremental(el, dx, dy) ==
    IF \E q \in Range(interactionState.startElementSnapshots) : q.id = el.id
    THEN [el EXCEPT
            !.x = el.x + dx,
            !.y = el.y + dy,
            !.points = IF HasPoints(el)
                       THEN Map(el.points,
                                LAMBDA q : Point(q.x + dx, q.y + dy))
                       ELSE el.points]
    ELSE el

MovedElement(el, dx, dy) ==
    IF \E q \in Range(interactionState.startElementSnapshots) : q.id = el.id
    THEN LET snapshot == SnapshotOf(el.id)
         IN [snapshot EXCEPT
               !.x = snapshot.x + dx,
               !.y = snapshot.y + dy,
               !.points = IF HasPoints(snapshot)
                          THEN Map(snapshot.points,
                                   LAMBDA q : Point(q.x + dx, q.y + dy))
                          ELSE snapshot.points]
    ELSE el

\* handle.includes(letter) for the handle names of the corner branch
HandleIncludes(handle, letter) ==
    letter \in (CASE handle = "tl" -> {"t", "l"}
                  [] handle = "tr" -> {"t", "r"}
                  [] handle = "bl" -> {"b", "l"}
                  [] handle = "br" -> {"b", "r"}
                  [] OTHER -> {handle})

ResizedElement_TopFixed(el, p, dx, dy) ==
    LET snapshot == interactionState.startElementSnapshot
        handle == interactionState.resizeHandle
        \* {...el.customData}
        newCustomData == [el.customData EXCEPT !.defined = TRUE]
        nx == IF handle \notin {"entry", "n", "s"}
                 /\ HandleIncludes(handle, "w")
              THEN snapshot.x + dx ELSE snapshot.x
        ny == IF (handle \notin {"entry", "n", "s"}
                  /\ HandleIncludes(handle, "n"))
              THEN snapshot.y + dy ELSE snapshot.y
        nw == IF handle \in {"entry", "n", "s"} THEN snapshot.width
              ELSE (snapshot.width
                      + (IF HandleIncludes(handle, "e") THEN dx ELSE 0))
                      - (IF HandleIncludes(handle, "w") THEN dx ELSE 0)
        nh == IF handle = "n" THEN snapshot.height - dy
              ELSE IF handle = "s" THEN snapshot.height + dy
              ELSE IF handle = "entry" THEN snapshot.height
              ELSE (snapshot.height
                      + (IF HandleIncludes(handle, "s") THEN dy ELSE 0))
                      - (IF HandleIncludes(handle, "n") THEN dy ELSE 0)
    IN IF handle = "entry"
       THEN [el EXCEPT
               !.customData =
                   [newCustomData EXCEPT
                      !.entryRatio =
                          ClampedRatio(p.y - snapshot.y, snapshot.height)]]
       ELSE [el EXCEPT !.x = nx, !.y = ny, !.width = nw, !.height = nh,
                       !.customData = newCustomData]

ResizedElement(el, p, dx, dy) ==
    LET snapshot == interactionState.startElementSnapshot
        handle == interactionState.resizeHandle
        \* {...el.customData}
        newCustomData == [el.customData EXCEPT !.defined = TRUE]
        nx == IF handle \notin {"entry", "n", "s"}
                 /\ HandleIncludes(handle, "w")
              THEN snapshot.x + dx ELSE snapshot.x
        ny == IF handle = "n"
                 \/ (handle \notin {"entry", "n", "s"}
                     /\ HandleIncludes(handle, "n"))
              THEN snapshot.y + dy ELSE snapshot.y
        nw == IF handle \in {"entry", "n", "s"} THEN snapshot.width
              ELSE (snapshot.width
                      + (IF HandleIncludes(handle, "e") THEN dx ELSE 0))
                      - (IF HandleIncludes(handle, "w") THEN dx ELSE 0)
        nh == IF handle = "n" THEN snapshot.height - dy
              ELSE IF handle = "s" THEN snapshot.height + dy
              ELSE IF handle = "entry" THEN snapshot.height
              ELSE (snapshot.height
                      + (IF HandleIncludes(handle, "s") THEN dy ELSE 0))
                      - (IF HandleIncludes(handle, "n") THEN dy ELSE 0)
    IN IF handle = "entry"
       THEN [el EXCEPT
               !.customData =
                   [newCustomData EXCEPT
                      !.entryRatio =
                          ClampedRatio(p.y - snapshot.y, snapshot.height)]]
       ELSE [el EXCEPT !.x = nx, !.y = ny, !.width = nw, !.height = nh,
                       !.customData = newCustomData]

OutsideEraser_Inclusive(el, p) ==
    ((el.x - p.x) * (el.x - p.x) + (el.y - p.y) * (el.y - p.y)) * scale * scale
        >= eraserSize * eraserSize * ScaleUnit * ScaleUnit

\* Math.sqrt(dx^2 + dy^2) > eraserSize / scale, squared and multiplied
\* through by scale^2
OutsideEraser(el, p) ==
    ((el.x - p.x) * (el.x - p.x) + (el.y - p.y) * (el.y - p.y)) * scale * scale
        > eraserSize * eraserSize * ScaleUnit * ScaleUnit

MoveDrawing(p) ==
    IF effectiveTool = "path" /\ currentElement # Null
    THEN IF HasPoints(currentElement)
         THEN [Cur EXCEPT !.currentElement.points = [@ EXCEPT ![Len(@)] = p]]
         ELSE Cur
    ELSE IF currentElement # Null
    THEN IF effectiveTool = "pencil"
         THEN [Cur EXCEPT
                 !.currentElement.points = Append(@, p),
                 !.currentElement.width =
                     Max(currentElement.width, p.x - currentElement.x),
                 !.currentElement.height =
                     Max(currentElement.height, p.y - currentElement.y)]
         ELSE IF effectiveTool \in DragKinds
         THEN [Cur EXCEPT
                 !.currentElement.width = p.x - currentElement.x,
                 !.currentElement.height = p.y - currentElement.y]
         ELSE IF effectiveTool = "eraser"
         THEN SetElements(Cur, SelectSeq(elements,
                                         LAMBDA el : OutsideEraser(el, p)))
         ELSE Cur
    ELSE Cur

handleMouseMove_Result(c) ==
    LET p == getMousePos(c)
        dx == p.x - interactionState.startMousePos.x
        dy == p.y - interactionState.startMousePos.y
    IN IF effectiveTool = "laser" /\ interactionState.mode = "drawing"
       THEN [Cur EXCEPT !.laserPoints = Append(laserPoints, LaserPoint(p))]
       ELSE IF interactionState.mode = "panning"
       THEN [Cur EXCEPT
               !.panOffset =
                   Point(panOffset.x + (c.x - interactionState.startMousePos.x),
                         panOffset.y + (c.y - interactionState.startMousePos.y)),
               !.interactionState.startMousePos = c]
       ELSE IF interactionState.mode = "selection_box"
       THEN [Cur EXCEPT
               !.selectionBox = IF selectionBox # Null
                                THEN [selectionBox EXCEPT !.current = p]
                                ELSE Null]
       ELSE IF interactionState.mode = "moving"
       THEN SetElements(Cur, Map(elements,
                                 LAMBDA el : MovedElement(el, dx, dy)))
       ELSE IF /\ interactionState.mode = "resizing"
               /\ Len(selectedElementIds) = 1
               /\ interactionState.startElementSnapshot # Null
               /\ interactionState.resizeHandle # "null"
       THEN SetElements(Cur,
                Map(elements,
                    LAMBDA el : IF el.id = selectedElementIds[1]
                                THEN ResizedElement(el, p, dx, dy)
                                ELSE el))
       ELSE IF interactionState.mode = "drawing" THEN MoveDrawing(p)
       ELSE Cur

handleMouseMove(c) ==
    /\ OnWorldGrid(c)
    /\ WithinBounds(handleMouseMove_Result(c))
    /\ Apply("mouseMove", handleMouseMove_Result(c),
             IF gest.stage = "down"
             THEN [gest EXCEPT !.p1 = getMousePos(c)]
             ELSE GestNone)
    /\ pointer' = IF pointer = "outside" THEN "over" ELSE pointer
    /\ UNCHANGED limits

\* Array.from(new Set(s)): the first occurrence of each value, in order
Dedup(s) ==
    LET keep == {i \in 1..Len(s) : \A j \in 1..(i - 1) : s[j] # s[i]}
        pos(k) == CHOOSE i \in keep : Cardinality({j \in keep : j < i}) = k - 1
    IN [k \in 1..Cardinality(keep) |-> s[pos(k)]]

InBox_Overlap(el, box) ==
    LET x1 == Min(box.start.x, box.current.x)
        x2 == Max(box.start.x, box.current.x)
        y1 == Min(box.start.y, box.current.y)
        y2 == Max(box.start.y, box.current.y)
        b == getElementBounds(el)
    IN b.maxX >= x1 /\ b.minX <= x2 /\ b.maxY >= y1 /\ b.minY <= y2

\* the elements whose bounds lie inside the selection box
InBox(el, box) ==
    LET x1 == Min(box.start.x, box.current.x)
        x2 == Max(box.start.x, box.current.x)
        y1 == Min(box.start.y, box.current.y)
        y2 == Max(box.start.y, box.current.y)
        b == getElementBounds(el)
    IN b.minX >= x1 /\ b.maxX <= x2 /\ b.minY >= y1 /\ b.maxY <= y2

UpSelectionBox_NoDedup(n, shift) ==
    IF interactionState.mode = "selection_box" /\ selectionBox # Null
    THEN LET idsInBox ==
                 Ids(SelectSeq(elements, LAMBDA el : InBox(el, selectionBox)))
         IN [n EXCEPT
               !.selectedElementIds =
                   IF shift THEN selectedElementIds \o idsInBox
                   ELSE idsInBox,
               !.selectionBox = Null]
    ELSE n

UpSelectionBox(n, shift) ==
    IF interactionState.mode = "selection_box" /\ selectionBox # Null
    THEN LET idsInBox ==
                 Ids(SelectSeq(elements, LAMBDA el : InBox(el, selectionBox)))
         IN [n EXCEPT
               !.selectedElementIds =
                   IF shift THEN Dedup(selectedElementIds \o idsInBox)
                   ELSE idsInBox,
               !.selectionBox = Null]
    ELSE n

UpDrawing(n) ==
    IF interactionState.mode = "drawing" /\ currentElement # Null
    THEN LET finalElement ==
                 normalizeElement(
                     IF currentElement.type = "pencil"
                     THEN WithPointBounds(currentElement)
                     ELSE currentElement)
         IN IF effectiveTool # "eraser"
            THEN [Push(SetElements(n, Append(elements, finalElement)))
                    EXCEPT !.selectedElementIds = <<finalElement.id>>]
            ELSE n
    ELSE n

\* if (elements !== history[historyIndex]) pushToHistory(elements)
PushIfNew(n) ==
    IF elementsRef # historyRef[historyIndex + 1]
    THEN Push([n EXCEPT !.elements = elements, !.elementsRef = elementsRef])
    ELSE n

UpEraser(n) ==
    IF effectiveTool = "eraser" /\ interactionState.mode = "drawing"
    THEN PushIfNew(n)
    ELSE n

UpResizing_NoPush(n) ==
    IF interactionState.mode = "resizing" /\ Len(selectedElementIds) = 1
    THEN SetElements(n,
            Map(elements,
                LAMBDA el : IF el.id = selectedElementIds[1]
                            THEN normalizeElement(el) ELSE el))
    ELSE n

UpResizing(n) ==
    IF interactionState.mode = "resizing" /\ Len(selectedElementIds) = 1
    THEN Push(SetElements(n,
                 Map(elements,
                     LAMBDA el : IF el.id = selectedElementIds[1]
                                 THEN normalizeElement(el) ELSE el)))
    ELSE n

UpMoving(n) ==
    IF interactionState.mode = "moving" THEN PushIfNew(n) ELSE n

handleMouseUp_LaserClearsSelection(shift) ==
    IF effectiveTool = "path" THEN Cur
    ELSE IF effectiveTool = "laser"
    THEN [Cur EXCEPT !.interactionState = NoInteraction,
                     !.selectedElementIds = <<>>]
    ELSE [UpMoving(UpResizing(UpEraser(UpDrawing(UpSelectionBox(Cur, shift)))))
            EXCEPT
            !.interactionState = NoInteraction,
            !.currentElement = Null,
            !.tool = IF /\ ~lockTool
                        /\ interactionState.mode = "drawing"
                        /\ effectiveTool \notin {"pencil", "eraser"}
                     THEN "selection" ELSE tool]

handleMouseUp_LaserKeepsMode(shift) ==
    IF effectiveTool \in {"path", "laser"} THEN Cur
    ELSE [UpMoving(UpResizing(UpEraser(UpDrawing(UpSelectionBox(Cur, shift)))))
            EXCEPT
            !.interactionState = NoInteraction,
            !.currentElement = Null,
            !.tool = IF /\ ~lockTool
                        /\ interactionState.mode = "drawing"
                        /\ effectiveTool \notin {"pencil", "eraser"}
                     THEN "selection" ELSE tool]

\* if (effectiveTool === 'path') return; if (effectiveTool === 'laser') {
\*   setInteractionState({mode: 'none', ...}); return }; ...
handleMouseUp_IgnoresLock(shift) ==
    IF effectiveTool = "path" THEN Cur
    ELSE IF effectiveTool = "laser"
    THEN [Cur EXCEPT !.interactionState = NoInteraction]
    ELSE [UpMoving(UpResizing(UpEraser(UpDrawing(UpSelectionBox(Cur, shift)))))
            EXCEPT
            !.interactionState = NoInteraction,
            !.currentElement = Null,
            !.tool = IF /\ interactionState.mode = "drawing"
                        /\ effectiveTool \notin {"pencil", "eraser"}
                     THEN "selection" ELSE tool]

handleMouseUp_Result(shift) ==
    IF effectiveTool = "path" THEN Cur
    ELSE IF effectiveTool = "laser"
    THEN [Cur EXCEPT !.interactionState = NoInteraction]
    ELSE [UpMoving(UpResizing(UpEraser(UpDrawing(UpSelectionBox(Cur, shift)))))
            EXCEPT
            !.interactionState = NoInteraction,
            !.currentElement = Null,
            !.tool = IF /\ ~lockTool
                        /\ interactionState.mode = "drawing"
                        /\ effectiveTool \notin {"pencil", "eraser"}
                     THEN "selection" ELSE tool]

\* onMouseUp
handleMouseUp(shift) ==
    /\ pointer = "pressed"
    /\ WithinBounds(handleMouseUp_Result(shift))
    /\ Apply("mouseUp", handleMouseUp_Result(shift),
             IF gest.stage = "down"
             THEN [gest EXCEPT !.stage = "up", !.shiftUp = shift]
             ELSE GestNone)
    /\ pointer' = "over"
    /\ UNCHANGED limits

\* onMouseLeave, which runs handleMouseUp
handleMouseLeave(shift) ==
    /\ pointer # "outside"
    /\ WithinBounds(handleMouseUp_Result(shift))
    /\ Apply("mouseLeave", handleMouseUp_Result(shift),
             IF gest.stage = "down"
             THEN [gest EXCEPT !.stage = "up", !.shiftUp = shift]
             ELSE GestNone)
    /\ pointer' = "outside"
    /\ UNCHANGED limits

----------------------------------------------------------------------------
(* Specifications *)

\* the state after construction, but for the element in progress
InitScenery ==
    /\ tool = "selection"
    /\ lockTool = FALSE
    /\ elements = <<>>
    /\ elementsRef = 1
    /\ clipboard = <<>>
    /\ history = << <<>> >>
    /\ historyRef = <<0>>
    /\ historyIndex = 0
    /\ strokeColor = "#000000"
    /\ eraserSize = DefaultEraserSize
    /\ panOffset = Point(0, 0)
    /\ scale = ScaleUnit
    /\ isSpacePressed = FALSE
    /\ selectedElementIds = <<>>
    /\ selectionBox = Null
    /\ interactionState = NoInteraction
    /\ laserPoints = <<>>
    /\ frames = 0
    /\ pointer = "outside"

InitProgram == InitScenery /\ currentElement = Null

Limits(e, h) ==
    [elements |-> e, history |-> h, zoomOut |-> 0, zoomIn |-> 0,
     loading |-> 0]

\* client points of the pointer events
Origin == {Point(0, 0)}
Pair == {Point(0, 0), Point(50, 50)}
Square == {Point(cx, cy) : cx \in {0, 50}, cy \in {0, 50}}

\* the pointer over the canvas
PointerOn(P, S) ==
    \/ \E c \in P, shift \in S : handleMouseDown(c, shift, 1)
    \/ \E c \in P : handleMouseMove(c)
    \/ \E shift \in S : handleMouseUp(shift)

Pointer(P, S) ==
    \/ PointerOn(P, S)
    \/ handleMouseLeave(FALSE)

\* The history under drawing, clearing, undo and redo
InitHistory ==
    /\ InitProgram
    /\ limits = Limits(MaxElements, MaxHistory)
    /\ gest = GestOff /\ hops = HopsOn /\ lastOp = LastOpOn
    /\ imageImport = ImportOff

NextHistory ==
    \/ Pointer(Origin, {FALSE})
    \/ \E confirm \in BOOLEAN : handleDelete(confirm)
    \/ undo
    \/ redo
    \/ ToolDoubleClick("rectangle")

SpecHistory == InitHistory /\ [][NextHistory]_vars

\* C1: a commit with the history H at index i yields H[0..i] followed by the
\* committed scene, of length i + 2, with the index on the last entry; the
\* entries after i are discarded.
CommitRule ==
    [][lastOp'.pushed =>
         /\ Len(history') = historyIndex + 2
         /\ SubSeq(history', 1, historyIndex + 1)
              = SubSeq(history, 1, historyIndex + 1)
         /\ historyIndex' = Len(history') - 1]_vars

\* a commit has just discarded a redo tail
CommitRuleWitness ==
    /\ lastOp.pushed
    /\ hops.stage = "c"
    /\ hops.baseIndex = 0
    /\ historyIndex = 1
    /\ Len(history) = 2
    /\ \E e \in Range(elements) : e.id = 2

\* C2: undo with index i > 0 makes the index i - 1, the live scene H[i - 1]
\* and the selection empty; redo with i < len - 1 does the same towards
\* i + 1; neither changes the history.
UndoRedoInBounds ==
    [][/\ lastOp'.name = "undo" /\ historyIndex > 0 =>
            /\ historyIndex' = historyIndex - 1
            /\ elements' = history[historyIndex]
            /\ selectedElementIds' = <<>>
            /\ history' = history
       /\ lastOp'.name = "redo" /\ historyIndex < Len(history) - 1 =>
            /\ historyIndex' = historyIndex + 1
            /\ elements' = history[historyIndex + 2]
            /\ selectedElementIds' = <<>>
            /\ history' = history]_vars

\* a redo has just brought back a scene with an element
UndoRedoInBoundsWitness ==
    /\ lastOp.name = "redo"
    /\ lastOp.changed
    /\ historyIndex = 1
    /\ elements # <<>>

\* C3: undo at index 0 and redo at the last index change nothing.
UndoRedoAtBoundary ==
    [][/\ lastOp'.name = "undo" /\ historyIndex = 0 => UNCHANGED progVars
       /\ lastOp'.name = "redo" /\ historyIndex = Len(history) - 1 =>
            UNCHANGED progVars]_vars

\* a redo at the last index has just left a selection in place
UndoRedoAtBoundaryWitness ==
    /\ lastOp.name = "redo"
    /\ ~lastOp.changed
    /\ historyIndex = Len(history) - 1
    /\ selectedElementIds # <<>>

\* C4: after commit, commit(S2), undo, redo the live scene is S2; after
\* commit, commit, undo, undo it is the entry that was current before the
\* first commit; a third undo changes nothing when that entry was the first.
HistoryRoundTrip ==
    /\ hops.stage = "ccur" => elements = hops.s2
    /\ hops.stage = "ccuu" /\ hops.fresh => elements = hops.base
    /\ hops.stage = "ccuuu" /\ hops.baseIndex = 0 => ~hops.changed

\* commit, commit, undo, redo has just brought back a second scene that
\* differs from the first and from the one before it
HistoryRoundTripWitness ==
    /\ hops.stage = "ccur"
    /\ hops.s2 # hops.base
    /\ hops.s2 # history[historyIndex]
    /\ hops.s2 # <<>>

----------------------------------------------------------------------------
(* A position marker drawn, resized by its top and bottom handles, copied *)
(* and pasted                                                             *)

\* the marker's corner, its top handle and a point below its bottom edge
PositionPoints == {Point(0, 0), Point(50, 0), Point(50, 150)}

Clipboard ==
    \/ handleCopy
    \/ handlePaste

InitPosition ==
    /\ InitProgram
    /\ limits = Limits(MaxElements, MaxHistory)
    /\ gest = GestOff /\ hops = HopsOff /\ lastOp = LastOpOn
    /\ imageImport = ImportOff

NextPosition ==
    \/ Pointer(PositionPoints, {FALSE})
    \/ Clipboard
    \/ \E confirm \in BOOLEAN : handleDelete(confirm)
    \/ ToolClick("long_position")

SpecPosition == InitPosition /\ [][NextPosition]_vars

\* C5: every rectangle-like element of every history snapshot has a width
\* and a height that are not negative.
CommittedGeometry ==
    \A i \in 1..Len(history) :
        \A e \in Range(history[i]) :
            e.type \in BoxKinds => e.width >= 0 /\ e.height >= 0

----------------------------------------------------------------------------
(* normalizeElement applied to an element, and again to its result *)

NormalizeKinds == {"rectangle", "diamond", "ellipse", "image",
                   "long_position", "short_position", "arrow", "line",
                   "pencil", "text"}
NormalizeOrigins == {0, 10}
NormalizeSizes == {-20, -10, 0, 10}

NormalizeInputs ==
    {Element(1, type, ex, ey, w, h,
             IF type = "pencil" THEN <<Point(ex, ey), Point(ex + w, ey + h)>>
             ELSE <<>>,
             IF type \in {"long_position", "short_position"}
             THEN CustomData(Ratio(1, 2)) ELSE CustomDataUndefined,
             "#000000") :
        type \in NormalizeKinds, ex \in NormalizeOrigins,
        ey \in NormalizeOrigins, w \in NormalizeSizes, h \in NormalizeSizes}

\* the element in progress is the argument; lastOp keeps the argument and
\* the result of the last application, and whether the argument was itself
\* a result
InitNormalize ==
    /\ InitScenery
    /\ currentElement \in NormalizeInputs
    /\ limits = Limits(MaxElements, MaxHistory)
    /\ gest = GestOff /\ hops = HopsOff /\ lastOp = LastOpOn
    /\ imageImport = ImportOff

normalizeStep ==
    /\ currentElement # Null
    /\ lastOp.name = "normalizeElement" => ~lastOp.again
    /\ currentElement' = normalizeElement(currentElement)
    /\ lastOp' = [on |-> TRUE, name |-> "normalizeElement", pushed |-> FALSE,
                  changed |-> currentElement' # currentElement,
                  arg |-> currentElement, result |-> currentElement',
                  again |-> lastOp.name = "normalizeElement"]
    /\ UNCHANGED <<tool, lockTool, elements, elementsRef, clipboard, history,
                   historyRef, historyIndex, strokeColor, eraserSize,
                   panOffset, scale, isSpacePressed, selectedElementIds,
                   selectionBox, interactionState, laserPoints, frames,
                   pointer, imageImport, limits, gest, hops>>

NextNormalize == normalizeStep

SpecNormalize == InitNormalize /\ [][NextNormalize]_vars

\* C6: normalizing a result again returns it unchanged; a box-like element
\* with a negative width or height keeps its bounds and gets a width and a
\* height that are not negative; an element of another kind is returned
\* unchanged.
NormalizeLaws ==
    lastOp.name = "normalizeElement" =>
        /\ lastOp.again => lastOp.result = lastOp.arg
        /\ lastOp.arg.type \in BoxKinds
             /\ (lastOp.arg.width < 0 \/ lastOp.arg.height < 0) =>
               /\ getElementBounds(lastOp.result)
                    = getElementBounds(lastOp.arg)
               /\ lastOp.result.width >= 0
               /\ lastOp.result.height >= 0
        /\ lastOp.arg.type \notin BoxKinds => lastOp.result = lastOp.arg

\* the result of normalizing a diamond of negative width and height (its
\* origin moved to -10, -10) has been normalized again
NormalizeLawsWitness ==
    /\ lastOp.name = "normalizeElement"
    /\ lastOp.again
    /\ lastOp.arg.type = "diamond"
    /\ lastOp.result.x = -10 /\ lastOp.result.width = 10
    /\ lastOp.result.y = -10 /\ lastOp.result.height = 20

----------------------------------------------------------------------------
(* Rectangles drawn by dragging *)

DrawPoints == {Point(10, 10), Point(110, 60), Point(50, 50)}

InitDraw ==
    /\ InitProgram
    /\ limits = Limits(MaxElements, MaxHistory)
    /\ gest = GestNone /\ hops = HopsOff /\ lastOp = LastOpOff
    /\ imageImport = ImportOff

NextDraw ==
    \/ Pointer(DrawPoints, {FALSE})
    \/ ToolDoubleClick("rectangle")
    \/ undo

SpecDraw == InitDraw /\ [][NextDraw]_vars

\* C7: a press at (x0, y0) with the rectangle tool, moves ending at (x1, y1)
\* and a release append exactly one new rectangle with x = min(x0, x1),
\* y = min(y0, y1), width = |x1 - x0| and height = |y1 - y0| to the scene,
\* record the scene as one new history entry and select exactly that
\* rectangle.
DrawRectangle ==
    gest.stage = "up" /\ gest.tool = "rectangle" =>
        LET e == elements[Len(elements)]
            i == gest.pre.historyIndex
        IN /\ Len(elements) = Len(gest.pre.elements) + 1
           /\ SubSeq(elements, 1, Len(elements) - 1) = gest.pre.elements
           /\ e.id \notin Range(Ids(gest.pre.elements))
           /\ e.type = "rectangle"
           /\ e.x = Min(gest.p0.x, gest.p1.x)
           /\ e.y = Min(gest.p0.y, gest.p1.y)
           /\ e.width = Abs(gest.p1.x - gest.p0.x)
           /\ e.height = Abs(gest.p1.y - gest.p0.y)
           /\ selectedElementIds = <<e.id>>
           /\ Len(history) = i + 2
           /\ SubSeq(history, 1, i + 1) = SubSeq(gest.pre.history, 1, i + 1)
           /\ history[i + 2] = elements
           /\ historyIndex = i + 1

\* a rectangle dragged from (50, 50) back to (10, 10) has been committed
\* after one dragged from (10, 10) to (110, 60)
DrawRectangleWitness ==
    /\ gest.stage = "up" /\ gest.tool = "rectangle"
    /\ gest.p0 = Point(50, 50) /\ gest.p1 = Point(10, 10)
    /\ Len(elements) = 2
    /\ elements[1].width = 100 /\ elements[1].height = 50
    /\ elements[2].x = 10 /\ elements[2].y = 10
    /\ elements[2].width = 40 /\ elements[2].height = 40

----------------------------------------------------------------------------
(* A rectangle dragged by its corner handles, then undo *)

Corners == {"tl", "tr", "bl", "br"}

ResizeRectangle ==
    Element(1, "rectangle", 0, 0, 50, 50, <<>>, CustomDataUndefined,
            "#000000")

\* the state after drawing the rectangle, which is selected
InitResize ==
    /\ tool = "selection"
    /\ lockTool = FALSE
    /\ elements = <<ResizeRectangle>>
    /\ elementsRef = 1
    /\ currentElement = Null
    /\ clipboard = <<>>
    /\ history = << <<>>, <<ResizeRectangle>> >>
    /\ historyRef = <<0, 1>>
    /\ historyIndex = 1
    /\ strokeColor = "#000000"
    /\ eraserSize = DefaultEraserSize
    /\ panOffset = Point(0, 0)
    /\ scale = ScaleUnit
    /\ isSpacePressed = FALSE
    /\ selectedElementIds = <<1>>
    /\ selectionBox = Null
    /\ interactionState = NoInteraction
    /\ laserPoints = <<>>
    /\ frames = 0
    /\ pointer = "over"
    /\ limits = Limits(MaxElements, MaxHistory)
    /\ gest = GestNone /\ hops = HopsOff /\ lastOp = LastOpOff
    /\ imageImport = ImportOff

NextResize ==
    \/ Pointer(Square, {FALSE})
    \/ undo

SpecResize == InitResize /\ [][NextResize]_vars

\* C8: a press on a corner handle of the single selected box-like element,
\* moves, a release and then undo leave the live scene equal, field for
\* field, to the scene before the press.
ResizeThenUndo ==
    gest.stage = "undone" /\ gest.mode = "resizing" /\ gest.handle \in Corners
        => elements = gest.pre.elements

\* the bottom-right handle of a 50 by 50 rectangle has been dragged to the
\* opposite corner and released, and undo has followed
ResizeThenUndoWitness ==
    /\ gest.stage = "undone" /\ gest.mode = "resizing" /\ gest.handle = "br"
    /\ gest.p0 = Point(50, 50) /\ gest.p1 = Point(0, 0)
    /\ \E e \in Range(elements) : e.width = 50 /\ e.height = 50

----------------------------------------------------------------------------
(* A pencil stroke and a rectangle, selected, copied and pasted at two *)
(* zoom levels                                                         *)

\* client points that are world points at the scales 1 and 0.8
PastePoints == {Point(0, 0), Point(40, 40)}

\* a stroke drawn from (0, 0) to (40, 40), then a rectangle drawn over it
PasteStroke ==
    Element(1, "pencil", 0, 0, 40, 40, <<Point(0, 0), Point(40, 40)>>,
            CustomDataUndefined, "#000000")

PasteRectangle ==
    Element(2, "rectangle", 0, 0, 40, 40, <<>>, CustomDataUndefined,
            "#000000")

\* the state after drawing the stroke and the rectangle and selecting both
\* with a box dragged around them
InitPaste ==
    /\ tool = "selection"
    /\ lockTool = FALSE
    /\ elements = <<PasteStroke, PasteRectangle>>
    /\ elementsRef = 2
    /\ currentElement = Null
    /\ clipboard = <<>>
    /\ history = << <<>>, <<PasteStroke>>, <<PasteStroke, PasteRectangle>> >>
    /\ historyRef = <<0, 1, 2>>
    /\ historyIndex = 2
    /\ strokeColor = "#000000"
    /\ eraserSize = DefaultEraserSize
    /\ panOffset = Point(0, 0)
    /\ scale = ScaleUnit
    /\ isSpacePressed = FALSE
    /\ selectedElementIds = <<1, 2>>
    /\ selectionBox = Null
    /\ interactionState = NoInteraction
    /\ laserPoints = <<>>
    /\ frames = 0
    /\ pointer = "outside"
    /\ limits = [Limits(MaxPasteElements, MaxPasteHistory)
                   EXCEPT !.zoomOut = MaxZoomOut]
    /\ gest = GestOff /\ hops = HopsOff /\ lastOp = LastOpOn
    /\ imageImport = ImportOff

NextPaste ==
    \/ Pointer(PastePoints, {FALSE})
    \/ Clipboard
    \/ \E delta \in {-1, 1} : updateZoom(delta)

SpecPaste == InitPaste /\ [][NextPaste]_vars

\* v is u moved by 20 / scale
Offset20(u, v) == v * scale = u * scale + PasteOffset * ScaleUnit

\* C9: copy puts the selected elements on the clipboard; paste appends one
\* new element for each of the k copied ones, with identifiers that differ
\* from each other and from those of the scene, the origin and, for pencil
\* and path, every point moved by (20 / scale, 20 / scale) and all other
\* fields equal; it selects exactly the new identifiers and commits the
\* scene as one history entry.
CopyPaste ==
    [][/\ lastOp'.name = "copy"
            /\ (\E e \in Range(elements) :
                    e.id \in Range(selectedElementIds)) =>
            clipboard' = SelectSeq(elements,
                             LAMBDA e : e.id \in Range(selectedElementIds))
       /\ lastOp'.name = "paste" /\ clipboard # <<>> =>
            LET k == Len(clipboard)
                m == Len(elements)
            IN /\ Len(elements') = m + k
               /\ SubSeq(elements', 1, m) = elements
               /\ \A i \in 1..k :
                    LET new == elements'[m + i]
                        src == clipboard[i]
                        moved == src.type \in {"pencil", "path"}
                    IN /\ \A j \in 1..(m + k) :
                            j # m + i => elements'[j].id # new.id
                       /\ Offset20(src.x, new.x) /\ Offset20(src.y, new.y)
                       /\ Len(new.points) = Len(src.points)
                       /\ \A q \in 1..Len(src.points) :
                            IF moved
                            THEN /\ Offset20(src.points[q].x, new.points[q].x)
                                 /\ Offset20(src.points[q].y, new.points[q].y)
                            ELSE new.points[q] = src.points[q]
                       /\ [new EXCEPT !.id = src.id, !.x = src.x, !.y = src.y,
                                      !.points = src.points] = src
               /\ selectedElementIds' = [i \in 1..k |-> elements'[m + i].id]
               /\ Len(history') = historyIndex + 2
               /\ SubSeq(history', 1, historyIndex + 1)
                    = SubSeq(history, 1, historyIndex + 1)
               /\ history'[historyIndex + 2] = elements'
               /\ historyIndex' = historyIndex + 1]_vars

\* the stroke and the rectangle have just been pasted at the scale 0.8, the
\* stroke's points moved by 25
CopyPasteWitness ==
    /\ lastOp.name = "paste" /\ lastOp.pushed
    /\ scale = 8
    /\ clipboard = <<PasteStroke, PasteRectangle>>
    /\ Len(elements) = 4
    /\ elements[3].points = <<Point(25, 25), Point(65, 65)>>
    /\ elements[4].x = 25 /\ elements[4].type = "rectangle"
    /\ selectedElementIds = <<elements[3].id, elements[4].id>>

----------------------------------------------------------------------------
(* Two rectangles and selection boxes dragged over them *)

\* a point outside both rectangles on either side, and one inside the first
BoxPoints == {Point(-20, -20), Point(25, 25), Point(100, 100)}

BoxFirst ==
    Element(1, "rectangle", 0, 0, 50, 50, <<>>, CustomDataUndefined,
            "#000000")

BoxSecond ==
    Element(2, "rectangle", 60, 60, 20, 20, <<>>, CustomDataUndefined,
            "#000000")

\* the state after drawing the two rectangles
InitBox ==
    /\ tool = "selection"
    /\ lockTool = FALSE
    /\ elements = <<BoxFirst, BoxSecond>>
    /\ elementsRef = 2
    /\ currentElement = Null
    /\ clipboard = <<>>
    /\ history = << <<>>, <<BoxFirst>>, <<BoxFirst, BoxSecond>> >>
    /\ historyRef = <<0, 1, 2>>
    /\ historyIndex = 2
    /\ strokeColor = "#000000"
    /\ eraserSize = DefaultEraserSize
    /\ panOffset = Point(0, 0)
    /\ scale = ScaleUnit
    /\ isSpacePressed = FALSE
    /\ selectedElementIds = <<2>>
    /\ selectionBox = Null
    /\ interactionState = NoInteraction
    /\ laserPoints = <<>>
    /\ frames = 0
    /\ pointer = "over"
    /\ limits = Limits(MaxElements, MaxBoxHistory)
    /\ gest = GestNone /\ hops = HopsOff /\ lastOp = LastOpOff
    /\ imageImport = ImportOff

NextBox == Pointer(BoxPoints, BOOLEAN)

SpecBox == InitBox /\ [][NextBox]_vars

\* C10: on the release of a selection box dragged from p0 to p1 an element
\* is in the box selection exactly when its bounds lie within the rectangle
\* spanned by p0 and p1, whichever way it was dragged (with shift held at
\* the release the selection made at the press is kept as well).
BoxSelectContainment ==
    gest.stage = "up" /\ gest.mode = "selection_box" =>
        LET x1 == Min(gest.p0.x, gest.p1.x)
            x2 == Max(gest.p0.x, gest.p1.x)
            y1 == Min(gest.p0.y, gest.p1.y)
            y2 == Max(gest.p0.y, gest.p1.y)
            kept == IF gest.shiftDown /\ gest.shiftUp
                    THEN Range(gest.pre.selectedElementIds) ELSE {}
        IN /\ elements = gest.pre.elements
           /\ \A e \in Range(elements) :
                LET b == getElementBounds(e)
                IN e.id \in Range(selectedElementIds) \ kept
                     <=> /\ e.id \notin kept
                         /\ x1 <= b.minX /\ b.maxX <= x2
                         /\ y1 <= b.minY /\ b.maxY <= y2

\* a box dragged up and left from (100, 100) to (25, 25) has selected the
\* second rectangle and left out the first, which it overlaps
BoxSelectContainmentWitness ==
    /\ gest.stage = "up" /\ gest.mode = "selection_box"
    /\ gest.p0 = Point(100, 100) /\ gest.p1 = Point(25, 25)
    /\ elements = <<BoxFirst, BoxSecond>>
    /\ selectedElementIds = <<2>>

----------------------------------------------------------------------------
(* Three rectangles and the eraser dragged near them *)

EraserPoints == {Point(100, 100), Point(100, 40)}

\* origins at the distances 30, 20 and 30 (18, 24) from (100, 100)
EraserFirst ==
    Element(1, "rectangle", 100, 70, 10, 10, <<>>, CustomDataUndefined,
            "#000000")

EraserSecond ==
    Element(2, "rectangle", 100, 80, 10, 10, <<>>, CustomDataUndefined,
            "#000000")

EraserThird ==
    Element(3, "rectangle", 82, 76, 10, 10, <<>>, CustomDataUndefined,
            "#000000")

\* the state after drawing the three rectangles and clicking the eraser
InitEraser ==
    /\ tool = "eraser"
    /\ lockTool = FALSE
    /\ elements = <<EraserFirst, EraserSecond, EraserThird>>
    /\ elementsRef = 3
    /\ currentElement = Null
    /\ clipboard = <<>>
    /\ history = << <<>>, <<EraserFirst>>, <<EraserFirst, EraserSecond>>,
                    <<EraserFirst, EraserSecond, EraserThird>> >>
    /\ historyRef = <<0, 1, 2, 3>>
    /\ historyIndex = 3
    /\ strokeColor = "#000000"
    /\ eraserSize = DefaultEraserSize
    /\ panOffset = Point(0, 0)
    /\ scale = ScaleUnit
    /\ isSpacePressed = FALSE
    /\ selectedElementIds = <<>>
    /\ selectionBox = Null
    /\ interactionState = NoInteraction
    /\ laserPoints = <<>>
    /\ frames = 0
    /\ pointer = "outside"
    /\ limits = Limits(MaxElements + 1, MaxEraserHistory)
    /\ gest = GestNone /\ hops = HopsOff /\ lastOp = LastOpOff
    /\ imageImport = ImportOff

NextEraser ==
    \/ Pointer(EraserPoints, {FALSE})
    \/ undo

SpecEraser == InitEraser /\ [][NextEraser]_vars

\* the square of the distance from the origin of e to p
OriginDistance2(e, p) ==
    (e.x - p.x) * (e.x - p.x) + (e.y - p.y) * (e.y - p.y)

\* C11 as stated: at scale 1 a move of an eraser drag to the point p removes
\* the elements whose origin is nearer to p than eraserSize and keeps those
\* at exactly that distance or farther.
EraserRadius ==
    [][/\ gest.stage = "down" /\ gest'.stage = "down"
       /\ gest.tool = "eraser" /\ scale = ScaleUnit
       => elements' =
            SelectSeq(elements,
                LAMBDA e : OriginDistance2(e, gest'.p1)
                             >= eraserSize * eraserSize)]_vars

\* C11 amended: at scale 1 a move of an eraser drag to the point p removes
\* the elements whose origin is at most eraserSize away from p, those at
\* exactly that distance included, and keeps the elements farther away.
EraserRadiusInclusive ==
    [][/\ gest.stage = "down" /\ gest'.stage = "down"
       /\ gest.tool = "eraser" /\ scale = ScaleUnit
       => elements' =
            SelectSeq(elements,
                LAMBDA e : OriginDistance2(e, gest'.p1)
                             > eraserSize * eraserSize)]_vars

\* the eraser of size 30 moved to (100, 40) has removed the rectangle
\* exactly 30 away and kept the two that are farther
EraserRadiusInclusiveWitness ==
    /\ gest.stage = "down" /\ gest.tool = "eraser"
    /\ gest.p1 = Point(100, 40)
    /\ eraserSize = 30
    /\ gest.pre.elements = <<EraserFirst, EraserSecond, EraserThird>>
    /\ elements = <<EraserSecond, EraserThird>>

----------------------------------------------------------------------------
(* C12: elements added through the imperative handle *)

MaxExternalElements == 3
MaxExternalHistory == 3

\* window.innerWidth of the page
InnerWidth == 100

\* onToolCall('draw_level', args): a full-width dashed line at args.y
DrawLevel(id, y) ==
    Element(id, "line", 0, y, InnerWidth, 0, <<>>, CustomDataUndefined,
            "#ff0000")

\* onToolCall('draw_zone', args): a filled rectangle
DrawZone(id, ex, ey, w, h) ==
    Element(id, "rectangle", ex, ey, w, h, <<>>, CustomDataUndefined,
            "transparent")

\* one function call of a toolCall message
ToolCalls ==
    {[name |-> "draw_level", y |-> 10, x |-> 0, width |-> 0, height |-> 0],
     [name |-> "draw_zone", y |-> 20, x |-> 20, width |-> 30, height |-> 40]}

\* the element onToolCall builds for a call, given the value of Date.now()
ToolCallElement(call, id) ==
    IF call.name = "draw_level" THEN DrawLevel(id, call.y)
    ELSE DrawZone(id, call.x, call.y, call.width, call.height)

\* The messages handled before the component renders again: one or two
\* function calls; the calls of one message run in the same task, where
\* Date.now() can give both the same value or two values.
ToolCallBatches ==
    {<<ToolCallElement(c, NthFreeId(1))>> : c \in ToolCalls}
        \cup {<<ToolCallElement(c, NthFreeId(1)), ToolCallElement(d, i)>> :
                c \in ToolCalls, d \in ToolCalls,
                i \in {NthFreeId(1), NthFreeId(2)}}

\* setElements(prev => { const next = [...prev, element];
\*                       pushToHistory(next); return next })
\* prev is the pending scene; pushToHistory is the callback of the last
\* render, with the `history` and `historyIndex` of that render
addExternalElement_Result(n, element) ==
    Push(SetElements(n, Append(n.elements, element)))

\* the calls of a batch, in order
RECURSIVE addExternalElements(_, _)
addExternalElements(n, batch) ==
    IF batch = <<>> THEN n
    ELSE addExternalElements(addExternalElement_Result(n, Head(batch)),
                             Tail(batch))

addExternalElement(batch) ==
    /\ ElementRoom(Len(batch))
    /\ HistoryRoom
    /\ LET n == addExternalElements(Cur, batch)
       IN /\ SetState(n)
          /\ lastOp' = [on |-> TRUE, name |-> "addExternalElement",
                        pushed |-> TRUE, changed |-> TRUE, args |-> batch,
                        pre |-> Pre]
    /\ UNCHANGED <<pointer, imageImport, limits, gest, hops>>

InitExternal ==
    /\ InitProgram
    /\ limits = Limits(MaxExternalElements, MaxExternalHistory)
    /\ gest = GestOff /\ hops = HopsOff /\ lastOp = LastOpOn
    /\ imageImport = ImportOff

NextExternal ==
    \/ \E batch \in ToolCallBatches : addExternalElement(batch)
    \/ undo
    \/ redo

SpecExternal == InitExternal /\ [][NextExternal]_vars

\* the scene after the first k calls of the batch of the last step
AfterCalls(k) == lastOp.pre.elements \o SubSeq(lastOp.args, 1, k)

\* C12: right after addExternalElement calls the injected elements are the
\* last elements of the scene, the current history entry is the live scene,
\* and each call has its own history entry after the entry that was current
\* before, so that one undo restores the scene before the last call.
ExternalCommit ==
    lastOp.name = "addExternalElement" =>
        /\ elements = AfterCalls(Len(lastOp.args))
        /\ history[historyIndex + 1] = elements
        /\ historyIndex = lastOp.pre.historyIndex + Len(lastOp.args)
        /\ \A k \in 0..Len(lastOp.args) :
              history[lastOp.pre.historyIndex + 1 + k] = AfterCalls(k)

----------------------------------------------------------------------------
(* C13: image import *)

MaxImportElements == 3
MaxImportHistory == 4
MaxLoading == 1

MAX_DIM == 600

\* window.innerHeight of the page
InnerHeight == 100

\* img.width and img.height of the files read
ImageSizes == {[width |-> 40, height |-> 20], [width |-> 1200, height |-> 600]}

\* if (width > MAX_DIM || height > MAX_DIM) { const ratio = width / height;
\*   if (width > height) { width = MAX_DIM; height = width / ratio }
\*   else { height = MAX_DIM; width = height * ratio } }
ImageSize(img) ==
    IF img.width > MAX_DIM \/ img.height > MAX_DIM
    THEN IF img.width > img.height
         THEN [width |-> MAX_DIM,
               height |-> (MAX_DIM * img.height) \div img.width]
         ELSE [width |-> (MAX_DIM * img.width) \div img.height,
               height |-> MAX_DIM]
    ELSE img

\* newEl of img.onload, centred in the window with the panOffset and the
\* scale of the closure c
ImageElement(id, img, c) ==
    LET size == ImageSize(img)
        centerX == ((InnerWidth \div 2 - c.panOffset.x) * ScaleUnit) \div c.scale
        centerY == ((InnerHeight \div 2 - c.panOffset.y) * ScaleUnit) \div c.scale
    IN Element(id, "image", centerX - size.width \div 2,
               centerY - size.height \div 2, size.width, size.height, <<>>,
               CustomDataUndefined, "transparent")

\* processImageFile(file), called by the paste and drop listeners of the
\* effect ("listener") or by handleImageUpload of the last render
\* ("upload"): the file is read in the background
processImageFile(via, img) ==
    /\ imageImport.on
    /\ Len(imageImport.loading) < limits.loading
    /\ imageImport' =
         [imageImport EXCEPT
            !.loading =
                Append(@, [img |-> img,
                           closure |-> IF via = "upload" THEN Closure(Cur)
                                       ELSE imageImport.listener])]
    /\ Observe("processImageFile", Cur, GestNone)
    /\ UNCHANGED <<progVars, frames, pointer, limits>>

\* img.onload: setElements(prev => { const next = [...prev, newEl];
\*   pushToHistory(next); return next }); setTool('selection')
\* with the pushToHistory of the render that created processImageFile
imageLoaded_Result(job) ==
    LET next == Append(elements, ImageElement(DateNowId, job.img, job.closure))
        c == job.closure
    IN [SetElements(Cur, next) EXCEPT
          !.history = pushToHistory(c.history, c.historyIndex, next).history,
          !.historyRef =
              pushToHistory(c.historyRef, c.historyIndex, FreshRef).history,
          !.historyIndex =
              pushToHistory(c.history, c.historyIndex, next).historyIndex,
          !.tool = "selection",
          !.pushed = TRUE]

\* s without its i-th value
Without(s, i) == SubSeq(s, 1, i - 1) \o SubSeq(s, i + 1, Len(s))

\* the files in flight are read independently: any of them may load next
imageLoaded ==
    /\ imageImport.on
    /\ ElementRoom(1)
    /\ \E i \in 1..Len(imageImport.loading) :
          /\ imageImport.loading[i].closure.historyIndex + 2 <= limits.history
          /\ LET n == imageLoaded_Result(imageImport.loading[i])
             IN /\ SetState(n)
                /\ Observe("imageLoaded", n, GestNone)
          /\ imageImport' = [imageImport EXCEPT !.loading = Without(@, i)]
    /\ UNCHANGED <<pointer, limits>>

\* the reset button: setScale(1); setPanOffset({x: 0, y: 0})
resetZoom_Result == [Cur EXCEPT !.scale = ScaleUnit, !.panOffset = Point(0, 0)]

resetZoom ==
    /\ pointer = "outside"
    /\ Apply("resetZoom", resetZoom_Result, GestNone)
    /\ UNCHANGED <<pointer, limits>>

InitImport ==
    /\ InitProgram
    /\ imageImport = [on |-> TRUE, listener |-> Closure(Cur), loading |-> <<>>]
    /\ limits = [Limits(MaxImportElements, MaxImportHistory)
                   EXCEPT !.loading = MaxLoading]
    /\ gest = GestOff /\ hops = HopsOff /\ lastOp = LastOpOn

NextImport ==
    \/ \E via \in {"listener", "upload"}, img \in ImageSizes :
          processImageFile(via, img)
    \/ imageLoaded
    \/ tool = "rectangle" /\ Pointer(Origin, {FALSE})
    \/ ToolDoubleClick("rectangle")
    \/ resetZoom

SpecImport == InitImport /\ [][NextImport]_vars

\* C13: when an image import completes, one image element is appended to
\* the scene of that moment and the new scene is committed after the
\* history entry current at that moment, so that an undo right after
\* restores the scene before the import.
ImportCommit ==
    [][lastOp'.name = "imageLoaded" =>
        /\ Len(elements') = Len(elements) + 1
        /\ SubSeq(elements', 1, Len(elements)) = elements
        /\ elements'[Len(elements')].type = "image"
        /\ history' = pushToHistory(history, historyIndex, elements').history
        /\ historyIndex' = historyIndex + 1
        /\ history'[historyIndex'] = elements]_vars

----------------------------------------------------------------------------
(* C14: clearing the board *)

\* C14: a delete with an empty selection asks for confirmation exactly when
\* the scene is not empty; declined, or with an empty scene, it changes
\* nothing; confirmed, it empties the scene and commits the empty scene as
\* one history entry after the current one.
ClearAllConfirmation ==
    [][lastOp'.name = "delete" /\ selectedElementIds = <<>> =>
        /\ lastOp'.asked <=> elements # <<>>
        /\ elements = <<>> \/ ~lastOp'.confirm => UNCHANGED progVars
        /\ elements # <<>> /\ lastOp'.confirm =>
              /\ elements' = <<>>
              /\ history' = Append(SubSeq(history, 1, historyIndex + 1), <<>>)
              /\ historyIndex' = historyIndex + 1
              /\ selectedElementIds' = <<>>]_vars

\* a board that was not empty has just been cleared after confirmation
ClearAllConfirmationWitness ==
    /\ lastOp.name = "delete" /\ lastOp.asked /\ lastOp.confirm
    /\ elements = <<>>
    /\ Len(history) = historyIndex + 1
    /\ history[historyIndex] # <<>>
    /\ history[historyIndex + 1] = <<>>

----------------------------------------------------------------------------
(* C15: the lifecycle of the interaction state *)

MaxLifecycleElements == 1
MaxLifecycleHistory == 2

LifecycleTools == {"selection", "rectangle", "pencil", "path", "laser", "eraser"}

InitLifecycle ==
    /\ InitProgram
    /\ limits = Limits(MaxLifecycleElements, MaxLifecycleHistory)
    /\ gest = GestOff /\ hops = HopsOff /\ lastOp = LastOpOn
    /\ imageImport = ImportOff

NextLifecycle ==
    \/ \E c \in Origin, detail \in {1, 2} : handleMouseDown(c, FALSE, detail)
    \/ \E c \in Origin : handleMouseMove(c)
    \/ handleMouseUp(FALSE)
    \/ handleMouseLeave(FALSE)
    \/ \E t \in LifecycleTools : ToolClick(t)
    \/ SpaceDown
    \/ SpaceUp

SpecLifecycle == InitLifecycle /\ [][NextLifecycle]_vars

\* C15 as stated: whenever no pointer press is in progress, that is after
\* every release or leave and before the next press, the mode is none,
\* whatever the tool.
ModeNoneOutsidePress ==
    pointer # "pressed" => interactionState.mode = "none"

\* C15 amended: a release or leave handled with an effective tool other than
\* path sets the mode to none; outside a press a mode other than none is
\* only one that was left in place, by a release handled with path as the
\* effective tool or by a later handler outside a press.
ModeNoneAfterRelease ==
    [][/\ lastOp'.name \in {"mouseUp", "mouseLeave"} /\ effectiveTool # "path"
          => interactionState'.mode = "none"
       /\ pointer' # "pressed" /\ interactionState'.mode # "none"
          => /\ interactionState'.mode = interactionState.mode
             /\ pointer = "pressed" => effectiveTool = "path"]_vars

\* a rectangle drag has just been released and the mode is none again
ModeNoneAfterReleaseWitness ==
    /\ lastOp.name = "mouseUp" /\ lastOp.pushed
    /\ interactionState.mode = "none"
    /\ Len(elements) = 1 /\ elements[1].type = "rectangle"

----------------------------------------------------------------------------
(* C16, C17: the laser pointer *)

\* the time between two steps of the clock, in ms
LaserTick == 500

\* Time passes: every laser point gets older. Ages of 1000 ms and more are
\* not told apart, since the filter of renderCanvas treats them alike.
Tick ==
    /\ \E i \in 1..Len(laserPoints) : laserPoints[i].age < LaserLifetime
    /\ laserPoints' =
         [i \in 1..Len(laserPoints) |->
            [laserPoints[i] EXCEPT !.age = Min(@ + LaserTick, LaserLifetime)]]
    /\ UNCHANGED <<tool, lockTool, elements, elementsRef, currentElement,
                   clipboard, history, historyRef, historyIndex, strokeColor,
                   eraserSize, panOffset, scale, isSpacePressed,
                   selectedElementIds, selectionBox, interactionState,
                   frames, pointer, imageImport, limits, gest, hops, lastOp>>

\* the browser runs a callback of requestAnimationFrame(renderCanvas)
AnimationFrame ==
    /\ frames > 0
    /\ Apply("animationFrame", renderLaser([Cur EXCEPT !.frames = @ - 1]),
             gest)
    /\ UNCHANGED <<pointer, limits>>

LaserRectangle ==
    Element(1, "rectangle", 0, 0, 50, 50, <<>>, CustomDataUndefined, "#000000")

\* the state after drawing a rectangle and double-clicking the laser tool
InitLaser ==
    /\ tool = "laser"
    /\ lockTool = TRUE
    /\ elements = <<LaserRectangle>>
    /\ elementsRef = 1
    /\ currentElement = Null
    /\ clipboard = <<>>
    /\ history = << <<>>, <<LaserRectangle>> >>
    /\ historyRef = <<0, 1>>
    /\ historyIndex = 1
    /\ strokeColor = "#000000"
    /\ eraserSize = DefaultEraserSize
    /\ panOffset = Point(0, 0)
    /\ scale = ScaleUnit
    /\ isSpacePressed = FALSE
    /\ selectedElementIds = <<1>>
    /\ selectionBox = Null
    /\ interactionState = NoInteraction
    /\ laserPoints = <<>>
    /\ frames = 0
    /\ pointer = "outside"
    /\ limits = Limits(MaxElements, MaxHistory)
    /\ gest = GestNone /\ hops = HopsOff /\ lastOp = LastOpOn
    /\ imageImport = ImportOff

NextLaser ==
    \/ Pointer(Pair, {FALSE})
    \/ Tick
    \/ AnimationFrame

SpecLaser == InitLaser /\ [][NextLaser]_vars

\* the browser runs the scheduled frames, and time passes
SpecLaserFair == SpecLaser /\ WF_vars(AnimationFrame) /\ WF_vars(Tick)

\* C16: during a gesture with the laser tool, from the press to the release,
\* the scene, the element in progress, the selection, the history and its
\* index stay as they are, and so does all other state but the laser
\* buffer, the pending frames and the mode.
LaserGesture ==
    [][gest'.tool = "laser" /\ gest'.stage \in {"down", "up"} =>
          /\ UNCHANGED <<elements, elementsRef, currentElement,
                         selectedElementIds, history, historyRef,
                         historyIndex>>
          /\ UNCHANGED <<tool, lockTool, clipboard, strokeColor, eraserSize,
                         panOffset, scale, isSpacePressed, selectionBox>>]_vars

\* a laser stroke of two points over a scene with a selected rectangle has
\* been released
LaserGestureWitness ==
    /\ gest.tool = "laser" /\ gest.stage = "up"
    /\ gest.p0 # gest.p1
    /\ Len(laserPoints) = 2
    /\ interactionState.mode = "none"
    /\ elements = <<LaserRectangle>> /\ selectedElementIds = <<1>>

\* C17: once no points are added any more, the animation loop ends with an
\* empty laser buffer and no frame pending.
LaserLoopEmpties ==
    <>[](pointer # "pressed") => <>[](laserPoints = <<>> /\ frames = 0)

----------------------------------------------------------------------------
(* C18: the range of the scale *)

MaxPan == 20

\* The values of scale * Math.pow(1.001, -e.deltaY), in tenths: any value
\* from 0 (the power underflows) upwards, as deltaY varies
WheelProducts == {0, 1, 5, 20, 50, 51, 1000}

\* e.deltaX, e.deltaY of a wheel event without ctrl or meta
WheelDeltas == {Point(0, 10), Point(0, -10)}

\* if (e.ctrlKey || e.metaKey) {
\*   newScale = Math.min(Math.max(0.1, scale * factor), 5);
\*   worldX = (mouseX - panOffset.x) / scale;
\*   newPanX = mouseX - worldX * newScale; ... setScale; setPanOffset }
\* else setPanOffset(prev => ({x: prev.x - e.deltaX, y: prev.y - e.deltaY}))
handleWheel_Result(c, ctrlKey, product, delta) ==
    IF ctrlKey
    THEN LET newScale == Min(Max(MinScale, product), MaxScale)
         IN [Cur EXCEPT
               !.scale = newScale,
               !.panOffset =
                   Point(c.x - ((c.x - panOffset.x) * newScale) \div scale,
                         c.y - ((c.y - panOffset.y) * newScale) \div scale)]
    ELSE [Cur EXCEPT !.panOffset = Point(panOffset.x - delta.x,
                                         panOffset.y - delta.y)]

\* the new pan offset is a whole number of pixels
WheelExact(c, product) ==
    LET newScale == Min(Max(MinScale, product), MaxScale)
    IN /\ ((c.x - panOffset.x) * newScale) % scale = 0
       /\ ((c.y - panOffset.y) * newScale) % scale = 0

\* onWheel
handleWheel(c, ctrlKey, product, delta) ==
    /\ pointer # "outside"
    /\ ctrlKey => WheelExact(c, product)
    /\ Abs(handleWheel_Result(c, ctrlKey, product, delta).panOffset.x) <= MaxPan
    /\ Abs(handleWheel_Result(c, ctrlKey, product, delta).panOffset.y) <= MaxPan
    /\ Apply("wheel", handleWheel_Result(c, ctrlKey, product, delta), GestNone)
    /\ UNCHANGED <<pointer, limits>>

\* the zoom buttons can be clicked at every scale
InitZoom ==
    /\ InitProgram
    /\ limits = [Limits(MaxElements, MaxHistory)
                   EXCEPT !.zoomOut = ScaleUnit,
                          !.zoomIn = MaxScale - ScaleUnit + 1]
    /\ gest = GestOff /\ hops = HopsOff /\ lastOp = LastOpOn
    /\ imageImport = ImportOff

NextZoom ==
    \/ \E c \in Origin : handleMouseMove(c)
    \/ handleMouseLeave(FALSE)
    \/ \E c \in Origin, product \in WheelProducts :
          handleWheel(c, TRUE, product, Point(0, 0))
    \/ \E c \in Origin, delta \in WheelDeltas : handleWheel(c, FALSE, 0, delta)
    \/ \E delta \in {-1, 1} : updateZoom(delta)
    \/ resetZoom

SpecZoom == InitZoom /\ [][NextZoom]_vars

\* C18: the scale is at least 0.1 and at most 5 in every state reached by
\* ctrl-wheel zooms, zoom button steps and zoom resets.
ScaleInRange == MinScale <= scale /\ scale <= MaxScale

\* at scale 5 the zoom-in button has been clicked: the scale has stayed 5
ScaleInRangeWitness ==
    /\ lastOp.name = "zoom" /\ ~lastOp.changed
    /\ scale = MaxScale

----------------------------------------------------------------------------
(* C19: getElementBounds of an element and of the element translated *)

BoundsKinds == {"rectangle", "line", "text", "pencil", "path"}
BoundsOrigins == {-10, 0}
BoundsSizes == {-20, 0, 10}
BoundsPoints == {<<>>, <<Point(5, 5)>>, <<Point(0, 0), Point(-10, 20)>>}
BoundsDeltas == {Point(-30, 5), Point(7, 0)}

BoundsInputs ==
    {Element(1, type, ex, ey, w, h, pts, CustomDataUndefined, "#000000") :
        type \in BoundsKinds, ex \in BoundsOrigins, ey \in BoundsOrigins,
        w \in BoundsSizes, h \in BoundsSizes, pts \in BoundsPoints}

\* the origin and every point moved by (dx, dy), as a move does
Translated(e, dx, dy) ==
    [e EXCEPT !.x = @ + dx, !.y = @ + dy,
              !.points = [i \in 1..Len(e.points) |->
                            Point(e.points[i].x + dx, e.points[i].y + dy)]]

InitBounds ==
    /\ InitScenery
    /\ currentElement \in BoundsInputs
    /\ limits = Limits(MaxElements, MaxHistory)
    /\ gest = GestOff /\ hops = HopsOff /\ lastOp = LastOpOn
    /\ imageImport = ImportOff

\* the element in progress is translated; lastOp keeps the element, the
\* translation and the bounds before and after
boundsStep ==
    /\ lastOp.name = "init"
    /\ \E d \in BoundsDeltas :
          /\ currentElement' = Translated(currentElement, d.x, d.y)
          /\ lastOp' = [on |-> TRUE, name |-> "getElementBounds",
                        pushed |-> FALSE, changed |-> TRUE,
                        arg |-> currentElement, delta |-> d,
                        before |-> getElementBounds(currentElement),
                        after |-> getElementBounds(currentElement')]
    /\ UNCHANGED <<tool, lockTool, elements, elementsRef, clipboard, history,
                   historyRef, historyIndex, strokeColor, eraserSize,
                   panOffset, scale, isSpacePressed, selectedElementIds,
                   selectionBox, interactionState, laserPoints, frames,
                   pointer, imageImport, limits, gest, hops>>

NextBounds == boundsStep

SpecBounds == InitBounds /\ [][NextBounds]_vars

\* C19: the bounds of an element translated by (dx, dy), origin and points,
\* are the bounds of the element with minX and maxX moved by dx and minY and
\* maxY moved by dy.
BoundsTranslate ==
    lastOp.name = "getElementBounds" =>
        /\ lastOp.after.minX = lastOp.before.minX + lastOp.delta.x
        /\ lastOp.after.maxX = lastOp.before.maxX + lastOp.delta.x
        /\ lastOp.after.minY = lastOp.before.minY + lastOp.delta.y
        /\ lastOp.after.maxY = lastOp.before.maxY + lastOp.delta.y

\* a path without points and with a negative width has been translated
BoundsTranslateWitness ==
    /\ lastOp.name = "getElementBounds"
    /\ lastOp.arg.type = "path" /\ lastOp.arg.points = <<>>
    /\ lastOp.arg.width < 0
    /\ lastOp.delta = Point(-30, 5)
    /\ lastOp.after.minX = -40 /\ lastOp.after.maxX = -40

----------------------------------------------------------------------------
(* C20: the geometry during a corner resize *)

\* C20: while a corner handle is dragged by (dx, dy) from the press, the
\* selected element has the geometry of the press changed by the standard
\* convention: br adds (dx, dy) to the size; tl adds (dx, dy) to the origin
\* and takes it from the size; tr adds dy to y, takes it from the height and
\* adds dx to the width; bl adds dx to x, takes it from the width and adds
\* dy to the height.
CornerResize ==
    gest.stage = "down" /\ gest.mode = "resizing" /\ gest.handle \in Corners =>
        LET id == gest.pre.selectedElementIds[1]
            s == CHOOSE q \in Range(gest.pre.elements) : q.id = id
            e == CHOOSE q \in Range(elements) : q.id = id
            dx == gest.p1.x - gest.p0.x
            dy == gest.p1.y - gest.p0.y
        IN /\ e.x = s.x + (IF gest.handle \in {"tl", "bl"} THEN dx ELSE 0)
           /\ e.y = s.y + (IF gest.handle \in {"tl", "tr"} THEN dy ELSE 0)
           /\ e.width = s.width
                          + (IF gest.handle \in {"tr", "br"} THEN dx ELSE -dx)
           /\ e.height = s.height
                           + (IF gest.handle \in {"bl", "br"} THEN dy ELSE -dy)

----------------------------------------------------------------------------
(* C21: the live scene and the current history entry *)

MaxIdleHistory == 3

IdleTools == {"path"}

IdleRectangle ==
    Element(1, "rectangle", 0, 0, 50, 50, <<>>, CustomDataUndefined, "#000000")

\* the state after drawing a rectangle and clicking the selection tool
InitIdle ==
    /\ tool = "selection"
    /\ lockTool = FALSE
    /\ elements = <<IdleRectangle>>
    /\ elementsRef = 1
    /\ currentElement = Null
    /\ clipboard = <<>>
    /\ history = << <<>>, <<IdleRectangle>> >>
    /\ historyRef = <<0, 1>>
    /\ historyIndex = 1
    /\ strokeColor = "#000000"
    /\ eraserSize = DefaultEraserSize
    /\ panOffset = Point(0, 0)
    /\ scale = ScaleUnit
    /\ isSpacePressed = FALSE
    /\ selectedElementIds = <<>>
    /\ selectionBox = Null
    /\ interactionState = NoInteraction
    /\ laserPoints = <<>>
    /\ frames = 0
    /\ pointer = "outside"
    /\ limits = Limits(MaxElements, MaxIdleHistory)
    /\ gest = GestOff /\ hops = HopsOff /\ lastOp = LastOpOff
    /\ imageImport = ImportOff

NextIdle ==
    \/ Pointer(Origin, {FALSE})
    \/ \E t \in IdleTools : ToolClick(t)
    \/ ToolDoubleClick("eraser")
    \/ SpaceDown
    \/ SpaceUp

SpecIdle == InitIdle /\ [][NextIdle]_vars

----------------------------------------------------------------------------
(* C22: the selection and the scene *)

MaxSelectionElements == 2
MaxSelectionHistory == 4

\* the state after drawing a rectangle, which is then selected
InitSelection ==
    /\ tool = "selection"
    /\ lockTool = FALSE
    /\ elements = <<IdleRectangle>>
    /\ elementsRef = 1
    /\ currentElement = Null
    /\ clipboard = <<>>
    /\ history = << <<>>, <<IdleRectangle>> >>
    /\ historyRef = <<0, 1>>
    /\ historyIndex = 1
    /\ strokeColor = "#000000"
    /\ eraserSize = DefaultEraserSize
    /\ panOffset = Point(0, 0)
    /\ scale = ScaleUnit
    /\ isSpacePressed = FALSE
    /\ selectedElementIds = <<IdleRectangle.id>>
    /\ selectionBox = Null
    /\ interactionState = NoInteraction
    /\ laserPoints = <<>>
    /\ frames = 0
    /\ pointer = "outside"
    /\ limits = Limits(MaxSelectionElements, MaxSelectionHistory)
    /\ gest = GestOff /\ hops = HopsOff /\ lastOp = LastOpOff
    /\ imageImport = ImportOff

NextSelection ==
    \/ Pointer(Origin, {FALSE})
    \/ ToolClick("eraser")
    \/ ToolDoubleClick("eraser")
    \/ Clipboard

SpecSelection == InitSelection /\ [][NextSelection]_vars

\* C22: every identifier in the selection is the identifier of an element
\* of the live scene.
SelectionExists ==
    \A i \in 1..Len(selectedElementIds) :
        \E j \in 1..Len(elements) : elements[j].id = selectedElementIds[i]

----------------------------------------------------------------------------
(* C23: the kinds of the elements of the scene *)

NonDrawableKinds == {"hand", "selection", "eraser", "laser"}

\* C23: no element of the live scene or of a history snapshot has kind
\* hand, selection, eraser or laser.
OnlyDrawableKinds ==
    /\ \A i \in 1..Len(elements) : elements[i].type \notin NonDrawableKinds
    /\ \A k \in 1..Len(history) : \A i \in 1..Len(history[k]) :
          history[k][i].type \notin NonDrawableKinds

----------------------------------------------------------------------------
(* C24, C25: move drags *)

MaxMoveElements == 2
MaxMoveHistory == 5

MovePoints == {Point(20, 20), Point(120, 20), Point(20, 80)}

MoveRectangle ==
    Element(1, "rectangle", 0, 0, 40, 40, <<>>, CustomDataUndefined,
            "#000000")

\* a stroke drawn from (100, 0) to (140, 40)
MoveStroke ==
    Element(2, "pencil", 100, 0, 40, 40, <<Point(100, 0), Point(140, 40)>>,
            CustomDataUndefined, "#000000")

\* the state after drawing the rectangle and the stroke, clicking the
\* selection tool and clicking on the empty canvas
InitMove ==
    /\ tool = "selection"
    /\ lockTool = FALSE
    /\ elements = <<MoveRectangle, MoveStroke>>
    /\ elementsRef = 2
    /\ currentElement = Null
    /\ clipboard = <<>>
    /\ history = << <<>>, <<MoveRectangle>>, <<MoveRectangle, MoveStroke>> >>
    /\ historyRef = <<0, 1, 2>>
    /\ historyIndex = 2
    /\ strokeColor = "#000000"
    /\ eraserSize = DefaultEraserSize
    /\ panOffset = Point(0, 0)
    /\ scale = ScaleUnit
    /\ isSpacePressed = FALSE
    /\ selectedElementIds = <<>>
    /\ selectionBox = Null
    /\ interactionState = NoInteraction
    /\ laserPoints = <<>>
    /\ frames = 0
    /\ pointer = "outside"
    /\ limits = Limits(MaxMoveElements, MaxMoveHistory)
    /\ gest = GestNone /\ hops = HopsOff /\ lastOp = LastOpOff
    /\ imageImport = ImportOff

NextMove == Pointer(MovePoints, BOOLEAN)

SpecMove == InitMove /\ [][NextMove]_vars

\* the snapshot captured for the element id at the press
Captured(id) ==
    \E q \in Range(interactionState.startElementSnapshots) : q.id = id

\* C24: at every pointer move of a move drag that started at p0, each
\* element captured at the press has its origin and its points at the
\* snapshot's plus (p1 - p0), the snapshots being the elements of the scene
\* of the press, and every other element is unchanged.
MoveSnapshotRelative ==
    [][gest.stage = "down" /\ gest.mode = "moving" /\ gest'.stage = "down" =>
        LET dx == gest'.p1.x - gest.p0.x
            dy == gest'.p1.y - gest.p0.y
        IN /\ Len(elements') = Len(elements)
           /\ \A q \in Range(interactionState.startElementSnapshots) :
                 /\ q \in Range(gest.pre.elements)
                 /\ \E i \in 1..Len(elements) : elements[i].id = q.id
           /\ \A i \in 1..Len(elements) :
                 IF Captured(elements[i].id)
                 THEN LET snapshot == SnapshotOf(elements[i].id)
                      IN /\ elements'[i].id = snapshot.id
                         /\ elements'[i].x = snapshot.x + dx
                         /\ elements'[i].y = snapshot.y + dy
                         /\ Len(elements'[i].points) = Len(snapshot.points)
                         /\ \A k \in 1..Len(snapshot.points) :
                               elements'[i].points[k] =
                                   Point(snapshot.points[k].x + dx,
                                         snapshot.points[k].y + dy)
                 ELSE elements'[i] = elements[i]]_vars

\* a drag of the stroke alone, away from where it was pressed
MoveSnapshotRelativeWitness ==
    /\ gest.stage = "down" /\ gest.mode = "moving"
    /\ gest.p1 # gest.p0
    /\ Len(interactionState.startElementSnapshots) = 1
    /\ interactionState.startElementSnapshots[1].type = "pencil"
    /\ Len(elements) = 2
    /\ elements # gest.pre.elements

\* C25: the release of a move drag commits exactly one history entry, the
\* scene, if the scene differs from the current history entry, and leaves
\* the history alone if it does not.
MoveCommit ==
    [][gest.stage = "down" /\ gest.mode = "moving" /\ gest'.stage = "up" =>
        IF elements # history[historyIndex + 1]
        THEN /\ history' = Append(SubSeq(history, 1, historyIndex + 1),
                                  elements)
             /\ historyIndex' = historyIndex + 1
        ELSE UNCHANGED <<history, historyIndex>>]_vars

----------------------------------------------------------------------------
(* C26: the release of an eraser drag *)

\* C26: the release of an eraser drag commits one history entry, the
\* resulting scene, if the drag removed an element, and leaves the history
\* alone if it removed none.
EraserCommit ==
    [][gest.stage = "down" /\ gest.tool = "eraser" /\ gest'.stage = "up" =>
        IF elements # gest.pre.elements
        THEN /\ history' = Append(SubSeq(history, 1, historyIndex + 1),
                                  elements)
             /\ historyIndex' = historyIndex + 1
        ELSE UNCHANGED <<history, historyIndex>>]_vars

----------------------------------------------------------------------------
(* C27: a resize gesture with keyboard commands in between *)

MaxMarkerElements == 2
MaxMarkerHistory == 3

\* the top, bottom and entry handles of the marker and a point inside it
MarkerPoints == {Point(50, 0), Point(50, 100), Point(100, 50), Point(50, 30)}

Marker ==
    Element(1, "long_position", 0, 0, PositionSize, PositionSize, <<>>,
            CustomData(Ratio(1, 2)), "#000000")

\* the state after a click with the long_position tool at (0, 0): the
\* marker is committed and selected, the tool is back to selection
InitMarker ==
    /\ tool = "selection"
    /\ lockTool = FALSE
    /\ elements = <<Marker>>
    /\ elementsRef = 1
    /\ currentElement = Null
    /\ clipboard = <<>>
    /\ history = << <<>>, <<Marker>> >>
    /\ historyRef = <<0, 1>>
    /\ historyIndex = 1
    /\ strokeColor = "#000000"
    /\ eraserSize = DefaultEraserSize
    /\ panOffset = Point(0, 0)
    /\ scale = ScaleUnit
    /\ isSpacePressed = FALSE
    /\ selectedElementIds = <<Marker.id>>
    /\ selectionBox = Null
    /\ interactionState = NoInteraction
    /\ laserPoints = <<>>
    /\ frames = 0
    /\ pointer = "outside"
    /\ limits = Limits(MaxMarkerElements, MaxMarkerHistory)
    /\ gest = GestOff /\ hops = HopsOff /\ lastOp = LastOpOn
    /\ imageImport = ImportOff

NextMarkerKeys ==
    \/ Pointer(MarkerPoints, {FALSE})
    \/ Clipboard

InitMarkerKeys == InitMarker

SpecMarkerKeys == InitMarkerKeys /\ [][NextMarkerKeys]_vars

\* C27: a pointer move in resizing mode changes no element but the one
\* snapshotted at the press, and after a release no snapshot is retained.
ResizeOnlySnapshotted ==
    [][/\ lastOp'.name = "mouseMove" /\ interactionState.mode = "resizing" =>
            /\ Len(elements') = Len(elements)
            /\ \A i \in 1..Len(elements) :
                  elements'[i] # elements[i] =>
                      elements[i].id =
                          interactionState.startElementSnapshot.id
       /\ lastOp'.name \in {"mouseUp", "mouseLeave"} =>
            /\ interactionState'.startElementSnapshot = Null
            /\ interactionState'.startElementSnapshots = <<>>]_vars

----------------------------------------------------------------------------
(* C28, C29: the entry, top and bottom handles of a position marker *)

MaxHandlesHistory == 4

\* the handles of the marker, an inner point and the marker's bottom right
\* corner, where the entry handle of a marker of height 0 at y = 100 would be
HandlePoints == MarkerPoints \cup {Point(100, 100)}

InitHandles ==
    /\ tool = "selection"
    /\ lockTool = FALSE
    /\ elements = <<Marker>>
    /\ elementsRef = 1
    /\ currentElement = Null
    /\ clipboard = <<>>
    /\ history = << <<>>, <<Marker>> >>
    /\ historyRef = <<0, 1>>
    /\ historyIndex = 1
    /\ strokeColor = "#000000"
    /\ eraserSize = DefaultEraserSize
    /\ panOffset = Point(0, 0)
    /\ scale = ScaleUnit
    /\ isSpacePressed = FALSE
    /\ selectedElementIds = <<Marker.id>>
    /\ selectionBox = Null
    /\ interactionState = NoInteraction
    /\ laserPoints = <<>>
    /\ frames = 0
    /\ pointer = "outside"
    /\ limits = Limits(MaxMarkerElements, MaxHandlesHistory)
    /\ gest = GestNone /\ hops = HopsOff /\ lastOp = LastOpOff
    /\ imageImport = ImportOff

NextHandles == Pointer(HandlePoints, {FALSE})

SpecHandles == InitHandles /\ [][NextHandles]_vars

\* the element of the scene s that has the identifier id
ElementWithId(s, id) == s[CHOOSE i \in 1..Len(s) : s[i].id = id]

\* 1/20 <= r <= 19/20
RatioInRange(r) ==
    r.k = "num" /\ r.d > 0 /\ 20 * r.n >= r.d /\ 20 * r.n <= 19 * r.d

\* r is relY / a clamped to [1/20, 19/20], for a > 0
RatioIsClamped(r, relY, a) ==
    /\ RatioInRange(r)
    /\ IF 20 * relY < a THEN 20 * r.n = r.d
       ELSE IF 20 * relY > 19 * a THEN 20 * r.n = 19 * r.d
       ELSE r.n * a = relY * r.d

\* C28: every pointer move of a drag of the entry handle sets the marker's
\* entryRatio to (pointer y - element y) / |height| clamped to [0.05, 0.95]
\* and leaves x, y, width and height as they are; the height of the marker
\* whose entry handle was pressed is not 0, and after the release the ratio
\* is within [0.05, 0.95] in the scene and in the committed entry.
EntryHandleDrag ==
    [][gest.stage = "down" /\ gest.mode = "resizing" /\ gest.handle = "entry" =>
        LET snapshot == interactionState.startElementSnapshot
            id == snapshot.id
            before == ElementWithId(elements, id)
            after == ElementWithId(elements', id)
        IN /\ snapshot \in Range(gest.pre.elements)
           /\ snapshot.type \in {"long_position", "short_position"}
           /\ snapshot.height # 0
           /\ Ids(elements') = Ids(elements)
           /\ gest'.stage = "down" =>
                 /\ RatioIsClamped(after.customData.entryRatio,
                                   gest'.p1.y - before.y,
                                   Abs(before.height))
                 /\ after.x = before.x /\ after.y = before.y
                 /\ after.width = before.width
                 /\ after.height = before.height
           /\ gest'.stage = "up" =>
                 /\ RatioInRange(after.customData.entryRatio)
                 /\ RatioInRange(ElementWithId(history'[historyIndex' + 1], id)
                                     .customData.entryRatio)]_vars

\* an entry handle dragged above the marker, below it and to a point inside
EntryHandleDragWitness ==
    /\ gest.stage = "down" /\ gest.mode = "resizing" /\ gest.handle = "entry"
    /\ gest.p1 # gest.p0
    /\ elements[1].customData.entryRatio = Ratio(3, 10)

EntryHandleClampWitness ==
    /\ gest.stage = "up" /\ gest.mode = "resizing" /\ gest.handle = "entry"
    /\ elements[1].customData.entryRatio \in {Ratio(1, 20), Ratio(19, 20)}

\* C29: every pointer move of a drag of a marker's top handle by dy sets y
\* to the snapshot's y + dy and the height to the snapshot's height - dy,
\* one of the bottom handle sets the height to the snapshot's height + dy
\* and leaves y; x, width and entryRatio are those of the snapshot.
MidEdgeDrag ==
    [][(/\ gest.stage = "down" /\ gest.mode = "resizing"
        /\ gest.handle \in {"n", "s"} /\ gest'.stage = "down") =>
        LET snapshot == interactionState.startElementSnapshot
            dy == gest'.p1.y - gest.p0.y
            after == ElementWithId(elements', snapshot.id)
        IN /\ snapshot \in Range(gest.pre.elements)
           /\ snapshot.type \in {"long_position", "short_position"}
           /\ Ids(elements') = Ids(elements)
           /\ after.x = snapshot.x
           /\ after.width = snapshot.width
           /\ after.customData.entryRatio = snapshot.customData.entryRatio
           /\ gest.handle = "n" =>
                 after.y = snapshot.y + dy /\ after.height = snapshot.height - dy
           /\ gest.handle = "s" =>
                 after.y = snapshot.y /\ after.height = snapshot.height + dy]_vars

\* the top handle dragged down by 30 and the bottom handle dragged up by 70
MidEdgeDragWitness ==
    /\ gest.stage = "down" /\ gest.mode = "resizing" /\ gest.handle = "n"
    /\ gest.p1.y - gest.p0.y = 30
    /\ elements[1].y = 30 /\ elements[1].height = 70

MidEdgeDragBottomWitness ==
    /\ gest.stage = "down" /\ gest.mode = "resizing" /\ gest.handle = "s"
    /\ gest.p1.y # gest.p0.y
    /\ elements[1].height # gest.pre.elements[1].height

----------------------------------------------------------------------------
(* C30: entering the resizing mode *)

MaxEnterElements == 2
MaxEnterHistory == 4

\* the rectangle's top left handle, a point on the stroke, the rectangle's
\* bottom right handle and a point of the empty canvas
EnterPoints == {Point(0, 0), Point(20, 20), Point(40, 40), Point(100, 100)}

EnterRectangle ==
    Element(1, "rectangle", 0, 0, 40, 40, <<>>, CustomDataUndefined,
            "#000000")

\* a stroke drawn over the rectangle's top left corner
EnterStroke ==
    Element(2, "pencil", 0, 0, 20, 20, <<Point(0, 0), Point(20, 20)>>,
            CustomDataUndefined, "#000000")

\* the state after drawing the rectangle and the stroke, clicking the
\* selection tool and clicking on the empty canvas
InitEnter ==
    /\ tool = "selection"
    /\ lockTool = FALSE
    /\ elements = <<EnterRectangle, EnterStroke>>
    /\ elementsRef = 2
    /\ currentElement = Null
    /\ clipboard = <<>>
    /\ history = << <<>>, <<EnterRectangle>>, <<EnterRectangle, EnterStroke>> >>
    /\ historyRef = <<0, 1, 2>>
    /\ historyIndex = 2
    /\ strokeColor = "#000000"
    /\ eraserSize = DefaultEraserSize
    /\ panOffset = Point(0, 0)
    /\ scale = ScaleUnit
    /\ isSpacePressed = FALSE
    /\ selectedElementIds = <<>>
    /\ selectionBox = Null
    /\ interactionState = NoInteraction
    /\ laserPoints = <<>>
    /\ frames = 0
    /\ pointer = "outside"
    /\ limits = Limits(MaxEnterElements, MaxEnterHistory)
    /\ gest = GestNone /\ hops = HopsOff /\ lastOp = LastOpOff
    /\ imageImport = ImportOff

NextEnter ==
    \/ Pointer(EnterPoints, BOOLEAN)
    \/ ToolDoubleClick("eraser")
    \/ ToolClick("selection")

SpecEnter == InitEnter /\ [][NextEnter]_vars

\* the single selected element is box-like and p is on one of its handles
OnHandleOfSelected(p) ==
    /\ Len(selectedElementIds) = 1
    /\ \E i \in 1..Len(elements) :
          /\ elements[i].id = selectedElementIds[1]
          /\ elements[i].type \in BoxKinds
          /\ getResizeHandleAtPosition(p.x, p.y, elements[i]) # "null"

\* C30: the mode becomes resizing only by a pointer-down with the selection
\* tool, exactly one element selected, that element box-like and the pointer
\* on one of its handles; such a press enters resizing whatever element is
\* under the pointer and leaves the selection alone.
EnterResizing ==
    [][/\ (interactionState.mode # "resizing"
             /\ interactionState'.mode = "resizing") =>
            /\ pointer = "over" /\ pointer' = "pressed"
            /\ gest'.stage = "down"
            /\ effectiveTool = "selection"
            /\ OnHandleOfSelected(gest'.p0)
       /\ (/\ pointer = "over" /\ pointer' = "pressed"
           /\ effectiveTool = "selection"
           /\ OnHandleOfSelected(gest'.p0)) =>
            /\ interactionState'.mode = "resizing"
            /\ selectedElementIds' = selectedElementIds
            /\ elements' = elements]_vars

\* a press on the top left handle of the selected rectangle, under the
\* stroke, has entered resizing
EnterResizingWitness ==
    /\ gest.stage = "down" /\ gest.mode = "resizing"
    /\ gest.p0 = Point(0, 0)
    /\ selectedElementIds = <<EnterRectangle.id>>
    /\ elements = <<EnterRectangle, EnterStroke>>
    /\ isPointInElement(0, 0, EnterStroke)

\* a press on that handle with both elements selected has not
EnterResizingSeveralWitness ==
    /\ gest.stage = "down" /\ gest.mode = "moving"
    /\ gest.p0 = Point(0, 0)
    /\ Len(gest.pre.selectedElementIds) = 2
    /\ elements = <<EnterRectangle, EnterStroke>>

----------------------------------------------------------------------------
(* C31: a plain click on an element *)

\* the positions in the scene of the elements whose bounds, widened by the
\* hit tolerance, contain p
Covering(p) ==
    {i \in 1..Len(elements) : isPointInElement(p.x, p.y, elements[i])}

\* a pointer-down with the selection tool that is not on a handle of the
\* single selected element
SelectionPress ==
    /\ pointer = "over" /\ pointer' = "pressed"
    /\ effectiveTool = "selection"
    /\ ~OnHandleOfSelected(gest'.p0)

\* C31: a pointer-down without shift, with the selection tool and not on a
\* handle, at a point covered by elements picks the last covering element of
\* the scene; the selection becomes that element alone if it was not
\* selected and is kept if it was; the mode becomes moving with snapshots of
\* exactly the selected elements.
PlainClick ==
    [][(SelectionPress /\ ~gest'.shiftDown /\ Covering(gest'.p0) # {}) =>
        LET top == elements[SetMax(Covering(gest'.p0))].id
        IN /\ selectedElementIds' =
                 IF top \in Range(selectedElementIds)
                 THEN selectedElementIds ELSE <<top>>
           /\ interactionState'.mode = "moving"
           /\ interactionState'.startMousePos = gest'.p0
           /\ Range(interactionState'.startElementSnapshots) =
                 {e \in Range(elements) : e.id \in Range(selectedElementIds')}
           /\ Len(interactionState'.startElementSnapshots) =
                 Len(selectedElementIds')
           /\ elements' = elements /\ history' = history]_vars

\* a plain press where the rectangle and the stroke both cover the point:
\* the stroke, drawn last, is selected alone
PlainClickWitness ==
    /\ gest.stage = "down" /\ gest.mode = "moving" /\ ~gest.shiftDown
    /\ gest.p0 = Point(20, 20)
    /\ elements = <<EnterRectangle, EnterStroke>>
    /\ gest.pre.selectedElementIds = <<EnterRectangle.id>>
    /\ selectedElementIds = <<EnterStroke.id>>

\* a plain press on an element of a selection of two keeps both
PlainClickKeptWitness ==
    /\ gest.stage = "down" /\ gest.mode = "moving" /\ ~gest.shiftDown
    /\ Len(gest.pre.selectedElementIds) = 2
    /\ selectedElementIds = gest.pre.selectedElementIds
    /\ Len(interactionState.startElementSnapshots) = 2

----------------------------------------------------------------------------
(* C32: a shift click on an element *)

\* the effect of a shift press that picks the element top
ShiftToggle(top) ==
    IF top \in Range(selectedElementIds)
    THEN /\ selectedElementIds' =
               SelectSeq(selectedElementIds, LAMBDA id : id # top)
         /\ interactionState' = interactionState
         /\ interactionState'.mode = "none"
         /\ elements' = elements /\ history' = history
         /\ historyIndex' = historyIndex
    ELSE /\ selectedElementIds' = Append(selectedElementIds, top)
         /\ elements' = elements /\ history' = history
         /\ historyIndex' = historyIndex

\* C32 as stated: every shift pointer-down with the selection tool on an
\* element toggles that element in the selection, and starts no drag if the
\* element was selected.
ShiftClickAnywhere ==
    [][(/\ pointer = "over" /\ pointer' = "pressed"
        /\ effectiveTool = "selection"
        /\ gest'.shiftDown /\ Covering(gest'.p0) # {}) =>
        ShiftToggle(elements[SetMax(Covering(gest'.p0))].id)]_vars

\* C32: a shift pointer-down with the selection tool that is not on a
\* handle of the single selected element, on an element, removes that
\* element from the selection, starting no drag and leaving scene and
\* history alone, if it was selected, and appends it to the selection if it
\* was not.
ShiftClickToggle ==
    [][(SelectionPress /\ gest'.shiftDown /\ Covering(gest'.p0) # {}) =>
        ShiftToggle(elements[SetMax(Covering(gest'.p0))].id)]_vars

\* a shift press on the stroke, one of two selected elements, has left the
\* rectangle selected and the mode none
ShiftClickToggleWitness ==
    /\ gest.stage = "down" /\ gest.shiftDown /\ gest.tool = "selection"
    /\ gest.p0 = Point(20, 20)
    /\ gest.pre.selectedElementIds = <<EnterRectangle.id, EnterStroke.id>>
    /\ selectedElementIds = <<EnterRectangle.id>>
    /\ interactionState.mode = "none"
    /\ pointer = "pressed"

\* a shift press on the unselected stroke has added it
ShiftClickAddWitness ==
    /\ gest.stage = "down" /\ gest.shiftDown /\ gest.tool = "selection"
    /\ gest.pre.selectedElementIds = <<EnterRectangle.id>>
    /\ selectedElementIds = <<EnterRectangle.id, EnterStroke.id>>
    /\ interactionState.mode = "moving"

----------------------------------------------------------------------------
(* C33: a press on the empty canvas *)

\* C33: a pointer-down with the selection tool that is on no handle and on
\* no element sets the mode to selection_box with a box whose start and
\* current points are the pointer position, and empties the selection
\* unless shift is held.
EmptyPress ==
    [][(SelectionPress /\ Covering(gest'.p0) = {}) =>
        /\ interactionState'.mode = "selection_box"
        /\ selectionBox' = [start |-> gest'.p0, current |-> gest'.p0]
        /\ selectedElementIds' =
              IF gest'.shiftDown THEN selectedElementIds ELSE <<>>
        /\ elements' = elements /\ history' = history]_vars

\* a shift press on the empty canvas with an element selected
EmptyPressWitness ==
    /\ gest.stage = "down" /\ gest.mode = "selection_box" /\ gest.shiftDown
    /\ gest.p0 = Point(100, 100)
    /\ selectionBox = [start |-> gest.p0, current |-> gest.p0]
    /\ selectedElementIds # <<>>
    /\ selectedElementIds = gest.pre.selectedElementIds

\* a plain press on the empty canvas has emptied a selection
EmptyPressClearWitness ==
    /\ gest.stage = "down" /\ gest.mode = "selection_box" /\ ~gest.shiftDown
    /\ gest.pre.selectedElementIds # <<>>
    /\ selectedElementIds = <<>>

----------------------------------------------------------------------------
(* C34: the release of a selection box *)

\* the sequence s has no value twice
NoDuplicates(s) == Cardinality(Range(s)) = Len(s)

\* C34: the release of a selection-box drag sets the selection, with shift
\* held, to the existing selection followed by the contained elements that
\* are not in it, and without shift to the contained elements; no
\* identifier is in it twice, the selection box is removed and scene and
\* history are unchanged.
BoxSelectMerge ==
    [][(/\ gest.stage = "down" /\ gest.mode = "selection_box"
        /\ gest'.stage = "up") =>
        LET contained ==
                {e.id : e \in {q \in Range(elements) : InBox(q, selectionBox)}}
        IN /\ selectionBox # Null
           /\ NoDuplicates(selectedElementIds')
           /\ Range(selectedElementIds') =
                 IF gest'.shiftUp
                 THEN Range(selectedElementIds) \cup contained
                 ELSE contained
           /\ gest'.shiftUp =>
                 SubSeq(selectedElementIds', 1, Len(selectedElementIds)) =
                     selectedElementIds
           /\ selectionBox' = Null
           /\ elements' = elements /\ history' = history
           /\ historyIndex' = historyIndex]_vars

\* with the first rectangle selected, a shift box around the second has
\* selected both
BoxSelectMergeWitness ==
    /\ gest.stage = "up" /\ gest.mode = "selection_box" /\ gest.shiftUp
    /\ gest.pre.selectedElementIds = <<BoxFirst.id>>
    /\ selectedElementIds = <<BoxFirst.id, BoxSecond.id>>
    /\ gest.p0 = Point(100, 100) /\ gest.p1 = Point(25, 25)

\* with the second rectangle selected, a shift box around it has not added
\* it again
BoxSelectMergeOnceWitness ==
    /\ gest.stage = "up" /\ gest.mode = "selection_box" /\ gest.shiftUp
    /\ gest.pre.selectedElementIds = <<BoxSecond.id>>
    /\ selectedElementIds = <<BoxSecond.id>>
    /\ gest.p0 = Point(100, 100) /\ gest.p1 = Point(25, 25)

----------------------------------------------------------------------------
(* C35: the tool after a gesture *)

MaxRevertElements == 2
MaxRevertHistory == 3

RevertTools == {"rectangle", "pencil", "eraser", "laser", "hand"}

InitRevert ==
    /\ InitProgram
    /\ limits = Limits(MaxRevertElements, MaxRevertHistory)
    /\ gest = GestNone /\ hops = HopsOff /\ lastOp = LastOpOff
    /\ imageImport = ImportOff

NextRevert ==
    \/ Pointer(Origin, {FALSE})
    \/ \E t \in RevertTools \cup {"selection"} : ToolClick(t)
    \/ \E t \in RevertTools : ToolDoubleClick(t)
    \/ SpaceDown
    \/ SpaceUp

SpecRevert == InitRevert /\ [][NextRevert]_vars

\* the release of a gesture
Release == gest.stage = "down" /\ gest'.stage = "up"

PressEnds == pointer = "pressed" /\ pointer' # "pressed"

ToolRevertUnlockedWitness ==
    /\ gest.stage = "up" /\ gest.tool = "rectangle"
    /\ ~lockTool /\ tool = "selection"
    /\ Len(elements) = 1

----------------------------------------------------------------------------
(* C36: the path tool *)

MaxPathElements == 1
MaxPathHistory == 2

PathPoints == {Point(0, 0), Point(30, -10)}

InitPath ==
    /\ InitProgram
    /\ limits = Limits(MaxPathElements, MaxPathHistory)
    /\ gest = GestNone /\ hops = HopsOff /\ lastOp = LastOpOn
    /\ imageImport = ImportOff

NextPath ==
    \/ \E c \in PathPoints, detail \in {1, 2} : handleMouseDown(c, FALSE, detail)
    \/ \E c \in PathPoints : handleMouseMove(c)
    \/ handleMouseUp(FALSE)
    \/ handleMouseLeave(FALSE)
    \/ ToolClick("path")
    \/ ToolDoubleClick("path")

SpecPath == InitPath /\ [][NextPath]_vars

\* s without its last value
Front(s) == SubSeq(s, 1, Len(s) - 1)

\* the scene and the history are left alone
SceneKept ==
    /\ elements' = elements /\ history' = history
    /\ historyIndex' = historyIndex
    /\ selectedElementIds' = selectedElementIds

\* C36: with the path tool the first press creates an in-progress path with
\* two points at the press position; a later single press sets the last
\* point to the press position and appends one point there; a move changes
\* the last point only; a release or leave changes nothing; a press of a
\* double click commits the path once to scene and history with x, y, width
\* and height the bounds of its points, selects it, clears the in-progress
\* element and sets the mode to none.
PathProtocol ==
    [][effectiveTool = "path" =>
        /\ (lastOp'.name = "mouseDown" /\ currentElement = Null) =>
              /\ currentElement' # Null
              /\ currentElement'.type = "path"
              /\ currentElement'.points = <<gest'.p0, gest'.p0>>
              /\ SceneKept
        /\ (/\ lastOp'.name = "mouseDown" /\ currentElement # Null
            /\ gest'.detail = 1) =>
              /\ currentElement' =
                    [currentElement EXCEPT
                       !.points = Front(@) \o <<gest'.p0, gest'.p0>>]
              /\ SceneKept
        /\ (lastOp'.name = "mouseMove" /\ currentElement # Null) =>
              /\ currentElement'.points # <<>>
              /\ Len(currentElement'.points) = Len(currentElement.points)
              /\ Front(currentElement'.points) = Front(currentElement.points)
              /\ [currentElement' EXCEPT !.points = <<>>] =
                    [currentElement EXCEPT !.points = <<>>]
              /\ SceneKept
        /\ lastOp'.name \in {"mouseUp", "mouseLeave"} =>
              /\ currentElement' = currentElement
              /\ interactionState' = interactionState
              /\ SceneKept
        /\ (/\ lastOp'.name = "mouseDown" /\ currentElement # Null
            /\ gest'.detail = 2) =>
              LET xs == {q.x : q \in Range(currentElement.points)}
                  ys == {q.y : q \in Range(currentElement.points)}
                  final == elements'[Len(elements')]
              IN /\ Len(elements') = Len(elements) + 1
                 /\ Front(elements') = elements
                 /\ final.points = currentElement.points
                 /\ final.id = currentElement.id
                 /\ final.type = "path"
                 /\ \A q \in xs : final.x <= q /\ q <= final.x + final.width
                 /\ \A q \in ys : final.y <= q /\ q <= final.y + final.height
                 /\ final.x \in xs /\ final.x + final.width \in xs
                 /\ final.y \in ys /\ final.y + final.height \in ys
                 /\ history' = Append(SubSeq(history, 1, historyIndex + 1),
                                      elements')
                 /\ historyIndex' = historyIndex + 1
                 /\ selectedElementIds' = <<final.id>>
                 /\ currentElement' = Null
                 /\ interactionState'.mode = "none"]_vars

\* a path of three points from (0, 0) to (30, -10), committed by a double
\* click
PathProtocolWitness ==
    /\ lastOp.name = "mouseDown" /\ gest.detail = 2
    /\ currentElement = Null
    /\ elements # <<>>
    /\ elements[Len(elements)].type = "path"
    /\ Len(elements[Len(elements)].points) = 3
    /\ elements[Len(elements)].x = 0
    /\ elements[Len(elements)].y = -10
    /\ elements[Len(elements)].width = 30
    /\ elements[Len(elements)].height = 10
    /\ selectedElementIds = <<elements[Len(elements)].id>>

----------------------------------------------------------------------------
(* C37: panning *)

MaxPanElements == 1
MaxPanHistory == 2
MaxPanZoomIn == 1
MaxPanOffset == 55

PanPoints == {Point(0, 0), Point(55, 55)}

InitPan ==
    /\ InitProgram
    /\ limits = [Limits(MaxPanElements, MaxPanHistory)
                   EXCEPT !.zoomIn = MaxPanZoomIn]
    /\ gest = GestNone /\ hops = HopsOff /\ lastOp = LastOpOff
    /\ imageImport = ImportOff

NextPan ==
    \/ \E c \in PanPoints, detail \in {1, 2} : handleMouseDown(c, FALSE, detail)
    \/ \E c \in PanPoints :
          /\ handleMouseMove(c)
          /\ Abs(panOffset'.x) <= MaxPanOffset
          /\ Abs(panOffset'.y) <= MaxPanOffset
    \/ handleMouseUp(FALSE)
    \/ handleMouseLeave(FALSE)
    \/ ToolClick("path")
    \/ ToolClick("hand")
    \/ SpaceDown
    \/ SpaceUp
    \/ \E delta \in {-1, 1} : updateZoom(delta)

SpecPan == InitPan /\ [][NextPan]_vars

\* a press, move or release of a press made with the hand as effective tool
PanStep == gest'.stage \in {"down", "up"} /\ gest'.tool = "hand"

\* the pan offset follows the client position of the pointer
PanByDisplacement ==
    IF gest.stage = "down" /\ gest'.stage = "down"
    THEN /\ panOffset'.x - panOffset.x =
               interactionState'.startMousePos.x
                  - interactionState.startMousePos.x
         /\ panOffset'.y - panOffset.y =
               interactionState'.startMousePos.y
                  - interactionState.startMousePos.y
    ELSE panOffset' = panOffset

\* C37: a press, move or release of a pan gesture (hand tool, or space bar
\* held over another tool) changes the pan offset by the displacement of
\* the pointer in client pixels and leaves the scene, the selection, the
\* history, the scale and the element in progress unchanged.
PanFrame ==
    [][PanStep =>
         /\ PanByDisplacement
         /\ SceneKept
         /\ scale' = scale
         /\ currentElement' = currentElement]_vars

----------------------------------------------------------------------------
(* C38: several imports in flight *)

MaxInFlight == 2
MaxImportsElements == 3
MaxImportsHistory == 4

InitImports ==
    /\ InitProgram
    /\ imageImport = [on |-> TRUE, listener |-> Closure(Cur), loading |-> <<>>]
    /\ limits = [Limits(MaxImportsElements, MaxImportsHistory)
                   EXCEPT !.loading = MaxInFlight]
    /\ gest = GestOff /\ hops = HopsOff /\ lastOp = LastOpOn

NextImports ==
    \/ \E via \in {"listener", "upload"}, img \in ImageSizes :
          processImageFile(via, img)
    \/ imageLoaded
    \/ tool = "rectangle" /\ Pointer(Origin, {FALSE})
    \/ ToolClick("rectangle")

SpecImports == InitImports /\ [][NextImports]_vars

\* C38: with drawings and image imports only, several imports in flight
\* and completing in any order, every commit has added one element to the
\* scene and one entry to the history and none has been lost: the history
\* entries are the scenes after each commit, in order, up to the live one.
ImportsIndependent ==
    /\ Len(history) = Len(elements) + 1
    /\ historyIndex = Len(elements)
    /\ \A k \in 0..Len(elements) : history[k + 1] = SubSeq(elements, 1, k)

----------------------------------------------------------------------------
(* C39: deleting the selection *)

MaxDeleteElements == 3
MaxDeleteHistory == 5

DeletePoints == {Point(10, 10), Point(110, 10), Point(210, 10)}

DeleteFirst ==
    Element(1, "rectangle", 0, 0, 20, 20, <<>>, CustomDataUndefined,
            "#000000")

DeleteSecond ==
    Element(2, "rectangle", 100, 0, 20, 20, <<>>, CustomDataUndefined,
            "#000000")

DeleteThird ==
    Element(3, "rectangle", 200, 0, 20, 20, <<>>, CustomDataUndefined,
            "#000000")

\* the state after drawing the three rectangles
InitDelete ==
    /\ tool = "selection"
    /\ lockTool = FALSE
    /\ elements = <<DeleteFirst, DeleteSecond, DeleteThird>>
    /\ elementsRef = 3
    /\ currentElement = Null
    /\ clipboard = <<>>
    /\ history = << <<>>, <<DeleteFirst>>, <<DeleteFirst, DeleteSecond>>,
                    <<DeleteFirst, DeleteSecond, DeleteThird>> >>
    /\ historyRef = <<0, 1, 2, 3>>
    /\ historyIndex = 3
    /\ strokeColor = "#000000"
    /\ eraserSize = DefaultEraserSize
    /\ panOffset = Point(0, 0)
    /\ scale = ScaleUnit
    /\ isSpacePressed = FALSE
    /\ selectedElementIds = <<3>>
    /\ selectionBox = Null
    /\ interactionState = NoInteraction
    /\ laserPoints = <<>>
    /\ frames = 0
    /\ pointer = "over"
    /\ limits = Limits(MaxDeleteElements, MaxDeleteHistory)
    /\ gest = GestOff /\ hops = HopsOff /\ lastOp = LastOpOn
    /\ imageImport = ImportOff

NextDelete ==
    \/ Pointer(DeletePoints, BOOLEAN)
    \/ \E confirm \in BOOLEAN : handleDelete(confirm)

SpecDelete == InitDelete /\ [][NextDelete]_vars

\* C39: a delete with a selection that is not empty removes from the scene
\* the elements whose id is selected and no other, keeps the others in
\* their order, commits the new scene as one history entry after the
\* current one and empties the selection, without asking.
DeleteSelection ==
    [][lastOp'.name = "delete" /\ selectedElementIds # <<>> =>
        /\ elements' =
              SelectSeq(elements,
                        LAMBDA el : \A i \in 1..Len(selectedElementIds) :
                                       selectedElementIds[i] # el.id)
        /\ history' = Append(SubSeq(history, 1, historyIndex + 1), elements')
        /\ historyIndex' = historyIndex + 1
        /\ selectedElementIds' = <<>>
        /\ ~lastOp'.asked]_vars

\* the second of three elements has just been deleted
DeleteSelectionWitness ==
    /\ lastOp.name = "delete" /\ ~lastOp.asked
    /\ selectedElementIds = <<>>
    /\ Len(elements) = 2
    /\ Len(history[historyIndex]) = 3
    /\ history[historyIndex][1] = elements[1]
    /\ history[historyIndex][3] = elements[2]
    /\ history[historyIndex + 1] = elements

\* two of three elements have just been deleted at once
DeleteSelectionSeveralWitness ==
    /\ lastOp.name = "delete" /\ ~lastOp.asked
    /\ selectedElementIds = <<>>
    /\ Len(elements) = 1
    /\ Len(history[historyIndex]) = 3
    /\ history[historyIndex + 1] = elements

----------------------------------------------------------------------------
(* C40: the hit area of the resize handles *)

HitKinds == {"rectangle", "image", "long_position"}
HitHeights == {-6, 6, 100}
HitScales == {5, 10, 20}
HitXs == {-3, 0, 4, 7, 47, 50, 54, 57, 97, 100, 104, 107}
HitYs == {-3, 0, 2, 3, 4, 7, 47, 50, 54, 97, 100, 104}

HitInputs ==
    {Element(1, type, 0, 0, PositionSize, h, <<>>,
             IF type = "long_position" THEN CustomData(Ratio(1, 2))
             ELSE CustomDataUndefined,
             "#000000") :
        type \in HitKinds, h \in HitHeights}

InitHit ==
    /\ InitScenery
    /\ currentElement \in HitInputs
    /\ limits = Limits(MaxElements, MaxHistory)
    /\ gest = GestOff /\ hops = HopsOff /\ lastOp = LastOpOn
    /\ imageImport = ImportOff

\* a zoom with the wheel sets the scale: Math.min(Math.max(0.1, scale *
\* factor), 5)
hitZoom ==
    /\ lastOp.name = "init"
    /\ \E s \in HitScales : scale' = s
    /\ UNCHANGED <<tool, lockTool, elements, elementsRef, clipboard, history,
                   historyRef, historyIndex, strokeColor, eraserSize,
                   panOffset, isSpacePressed, selectedElementIds,
                   selectionBox, interactionState, laserPoints, frames,
                   currentElement, pointer, imageImport, limits, gest, hops,
                   lastOp>>

\* the handle of the element at (px, py) is looked up; lastOp keeps the
\* point and the answer
hitStep ==
    /\ \E px \in HitXs, py \in HitYs :
          lastOp' = [on |-> TRUE, name |-> "getResizeHandleAtPosition",
                     pushed |-> FALSE, changed |-> FALSE,
                     px |-> px, py |-> py,
                     result |-> getResizeHandleAtPosition(px, py,
                                                          currentElement)]
    /\ UNCHANGED <<tool, lockTool, elements, elementsRef, clipboard, history,
                   historyRef, historyIndex, strokeColor, eraserSize,
                   panOffset, scale, isSpacePressed, selectedElementIds,
                   selectionBox, interactionState, laserPoints, frames,
                   currentElement, pointer, imageImport, limits, gest, hops>>

NextHit == hitZoom \/ hitStep

SpecHit == InitHit /\ [][NextHit]_vars

\* the handles of e in the order of the tests, each at (x / d, y / d)
HandlePositions(e) ==
    LET x1 == Min(e.x, e.x + e.width)
        x2 == Max(e.x, e.x + e.width)
        y1 == Min(e.y, e.y + e.height)
        y2 == Max(e.y, e.y + e.height)
        r == EntryRatioOrDefault(e)
        at(name, x, y, d) == [name |-> name, x |-> x, y |-> y, d |-> d]
        corners == <<at("tl", x1, y1, 1), at("tr", x2, y1, 1),
                     at("bl", x1, y2, 1), at("br", x2, y2, 1)>>
    IN IF e.type \in {"long_position", "short_position"}
       THEN corners \o
            <<at("n", x1 + x2, 2 * y1, 2), at("s", x1 + x2, 2 * y2, 2),
              at("entry", x2 * r.d, y1 * r.d + Abs(e.height) * r.n, r.d)>>
       ELSE corners

\* (px, py) is less than pixels / scale world units from the handle h, on
\* each axis
WithinOf(px, py, h, pixels) ==
    /\ Abs(px * h.d - h.x) * scale < pixels * ScaleUnit * h.d
    /\ Abs(py * h.d - h.y) * scale < pixels * ScaleUnit * h.d

\* the first handle of e with (px, py) in its reach
HandleWithin(px, py, e, pixels) ==
    LET hs == HandlePositions(e)
        hit == {i \in 1..Len(hs) : WithinOf(px, py, hs[i], pixels)}
    IN IF hit = {} THEN "null" ELSE hs[SetMin(hit)].name

\* C40 as stated: the handle reported is the first, corners before n, s and
\* entry, that lies within 8 / scale world units of the pointer on each
\* axis.
HandleHitRadius8 ==
    lastOp.name = "getResizeHandleAtPosition" =>
        lastOp.result =
            HandleWithin(lastOp.px, lastOp.py, currentElement, HANDLE_SIZE)

\* C40: the handle reported for a box-like element is the first, corners
\* before n, s and entry, that lies less than 4 / scale world units from
\* the pointer on each axis (half the handle size of 8 screen pixels), and
\* none is reported when there is no such handle.
HandleHitRadius ==
    lastOp.name = "getResizeHandleAtPosition" =>
        lastOp.result =
            HandleWithin(lastOp.px, lastOp.py, currentElement,
                         HANDLE_SIZE \div 2)

\* a point in the reach of tr, br and entry of a marker 6 high: tr
HandleHitRadiusWitness ==
    /\ lastOp.name = "getResizeHandleAtPosition"
    /\ scale = ScaleUnit
    /\ currentElement.type = "long_position" /\ currentElement.height = 6
    /\ lastOp.px = 97 /\ lastOp.py = 3
    /\ lastOp.result = "tr"

\* at scale 2 a point 3 world units from the entry handle: no handle
HandleHitRadiusMissWitness ==
    /\ lastOp.name = "getResizeHandleAtPosition"
    /\ scale = 20
    /\ currentElement.type = "long_position" /\ currentElement.height = 100
    /\ lastOp.px = 97 /\ lastOp.py = 50
    /\ lastOp.result = "null"

====
